---- MODULE Spec2Model ----
(***************************************************************************)
(* Task registry of illuc (src-tauri/src/tasks/mod.rs): the registry map,  *)
(* the request handlers create/start/stop/discard, and, per started        *)
(* session, the reader thread (stream_terminal_output), the delayed        *)
(* quiet-check threads it spawns, and the exit waiter (wait_for_exit).     *)
(* Every step is one lock acquisition or one externally visible effect of  *)
(* the code, so that the interleavings of the threads are those of the     *)
(* program.                                                                *)
(*                                                                         *)
(* The handlers read and write the record of one task id only, so the      *)
(* model follows a single task (TaskIds).  A session slot is taken again   *)
(* once the reader thread and the exit waiter of its session have ended;   *)
(* MaxSessions bounds the sessions whose threads are alive at once.        *)
(***************************************************************************)
EXTENDS Integers, Sequences, FiniteSets, TLC

\* ---------------------------------------------------------------- bounds
MaxSessions == 1
MaxTime == 1

\* Task ids (Uuid::new_v4): each is handed out once.
TaskIds == {1}

\* Request threads of the command surface (tauri runs commands concurrently).
Callers == {"c1", "c2"}
\* Spec issues its requests one after the other, from one of them.
Sequential == {"c1"}
\* Exit codes a child can end with: success and failure.
ExitCodes == {0, 1}

\* Option<T>
None == <<>>
Some(x) == <<x>>

VARIABLES
    tasks,      \* TaskManagerInner.tasks : task id -> TaskRecord
    nextId,     \* number of task ids handed out (Uuid::new_v4 is fresh)
    clock,      \* Utc::now() / Instant::now(), in units of the 1000 ms delay
    sessions,   \* one entry per spawned child: its threads and handles
    timers,     \* delayed quiet-check threads: <<task id, chunk timestamp>>
    callers,    \* the request handlers in flight
    events,     \* per session: what has been emitted on the event bus
    stopped,    \* task ids for which stop_task returned Ok since the last exit
    reqs,       \* the CreateTaskRequest each create_task in flight was given
    meta,       \* task id -> worktree_path, branch_name, base_commit of its summary
    repo,       \* the base repository: its branches, worktrees and directories
    bus,        \* task_status_changed events published by create and register
    replies,    \* what discard_task returned to each request thread
    screen,     \* Screen: rows, cols, grid, cursor_row, cursor_col
    parser,     \* vte::Parser kept next to the screen, across chunks
    fed,        \* the chunks fed to the screen so far, in order
    agent,      \* agent driver state: last_output, last_status, its two threads
    notified,   \* the statuses passed to on_status, in order
    shells,     \* worktree shells: tasks that have one, spawns, calls answered
    lookup,     \* the last find_latest_session_id: directories read and result
    launch,     \* the last launcher call: outcome per candidate and result
    host,       \* the screen's host: build, last size asked for, a panic in a feed
    threads     \* lock discipline: where each thread is and the locks it holds

\* What the registry and its threads read and write.
registryVars == <<tasks, nextId, clock, sessions, timers, callers, events, stopped>>
\* The repository on disk and what create, register and discard exchange with it.
vcsVars == <<reqs, meta, repo, bus, replies>>

\* The virtual screen of one session and the agent driver that feeds it.
termVars == <<screen, parser, fed, agent, notified>>

\* The worktree shell, the session lookup of Copilot and the launchers.
auxVars == <<shells, lookup, launch, host, threads>>

vars == <<tasks, nextId, clock, sessions, timers, callers, events, stopped,
          reqs, meta, repo, bus, replies, screen, parser, fed, agent, notified,
          shells, lookup, launch, host, threads>>

Registered == DOMAIN tasks
SessionIds == 1..MaxSessions

ActiveStatus == {"Idle", "Working", "AwaitingApproval"}

\* ------------------------------------------------------------- records
\* The record create_task inserts: TaskSummary and TaskRecord as built there.
NewRecordCreating ==
    [status |-> "CreatingWorktree", started_at |-> None, ended_at |-> None,
     exit_code |-> None, runtime |-> None, last_output |-> None]

NewRecord ==
    [status |-> "Ready", started_at |-> None, ended_at |-> None,
     exit_code |-> None, runtime |-> None, last_output |-> None]

IdleCaller == [pc |-> "idle", id |-> 0, sess |-> 0, ret |-> "none", nested |-> FALSE]

\* Positions of the reader thread: "none" (not spawned), "first" (in its
\* first read), "approve", "working", "idleaw" (handling a chunk), "read" (in
\* a later read: a terminal_output event has been emitted), "done".
\* The reader thread is spawned by start_task only after the runtime is
\* installed and the status published.
ReaderAtSpawnEarly == "first"
ReaderAtSpawn == "none"

Reading(s) == sessions[s].reader \in {"first", "read"}

NewSession(t) ==
    [task |-> t, child |-> "running", code |-> 0,
     reader |-> ReaderAtSpawn, rnow |-> 0, waiter |-> "none"]

\* A slot no session has used yet.
FreeSession ==
    [task |-> 0, child |-> "none", code |-> 0,
     reader |-> "done", rnow |-> 0, waiter |-> "done"]

\* idle: start_task has published status_changed(Idle) for the session;
\* early: a terminal_output event was emitted before that; exits: number of
\* terminal_exit events emitted.
NewEvents == [idle |-> FALSE, early |-> FALSE, exits |-> 0]

\* What a create_task, register_existing_worktrees or discard_task in flight
\* holds: which handler it is (op), the CreateTaskRequest (base_ref and
\* branch_name are Option<String>; repo_ok: base_repo_path names a git
\* repository) and its locals.
NoRequest ==
    [op |-> "none", repo_ok |-> TRUE, base_ref |-> None, branch_name |-> None,
     commit |-> None, branch |-> None, path |-> None, entries |-> {}]

\* discard_task has not returned to the request thread.
NoReply == [id |-> 0, ret |-> "none", path |-> None, branch |-> None]

\* A repository with its root checked out and nothing under .illuc/worktrees.
EmptyRepo == [branches |-> {}, worktrees |-> {}, dirs |-> {}]

RegistryInit ==
    /\ tasks = <<>>
    /\ nextId = 0
    /\ clock = 0
    /\ sessions = [s \in SessionIds |-> FreeSession]
    /\ timers = {}
    /\ callers = [c \in Callers |-> IdleCaller]
    /\ events = [s \in SessionIds |-> NewEvents]
    /\ stopped = {}

\* Screen::new: a grid of spaces with the cursor in the top left corner.
Screen_new(rows, cols) ==
    [rows |-> rows, cols |-> cols,
     grid |-> [r \in 1..rows |-> [c \in 1..cols |-> " "]],
     cursor_row |-> 0, cursor_col |-> 0]

\* Parser::new: the ground state, no parameter collected.
Parser_new == [state |-> "ground", params |-> <<>>, param |-> 0]

\* The state of an agent driver after Default / reset, and its threads: the
\* reader and the idle poller, each with the status it is about to pass to
\* on_status; the call of handle_startup_sequence the reader is about to make
\* (startup: what the snapshot contained); the no-sessions re-check thread
\* (recheck: when it was spawned). The PTY writer: whether terminal_write
\* holds its lock (typing) and the bytes the driver wrote to it (written).
NewAgent(kind) ==
    [kind |-> kind, last_output |-> None, last_status |-> None,
     reader |-> None, idle |-> None,
     sent_resume_enter |-> FALSE, sent_no_sessions_escape |-> FALSE,
     pending_no_sessions_check |-> FALSE,
     startup |-> None, recheck |-> None,
     typing |-> FALSE, written |-> <<>>]

\* A session that has read no output.
\* No shell has been started, nothing looked up, nothing launched.
NoShells == [open |-> {}, spawned |-> <<>>, calls |-> <<>>]
NoLookup == [primary |-> None, legacy |-> None, scanned |-> <<>>, result |-> None]
NoLaunch ==
    [opener |-> "none", candidates |-> <<>>, outcomes |-> <<>>,
     tried |-> 0, result |-> "none"]

\* The build checks integer overflow (debug) or wraps (release); nothing was
\* resized and no thread has panicked.
NoHost == [overflow_checks |-> TRUE, size |-> None, panicked |-> FALSE]

\* No thread of the lock discipline has been started.
NoThreads == <<>>

AuxInit ==
    /\ shells = NoShells
    /\ lookup = NoLookup
    /\ launch = NoLaunch
    /\ host = NoHost
    /\ threads = NoThreads

TermInit ==
    /\ screen = Screen_new(2, 3)
    /\ parser = Parser_new
    /\ fed = <<>>
    /\ agent = NewAgent("codex")
    /\ notified = <<>>

Init ==
    /\ RegistryInit
    /\ TermInit
    /\ AuxInit
    /\ reqs = [c \in Callers |-> NoRequest]
    /\ meta = <<>>
    /\ repo = EmptyRepo
    /\ bus = <<>>
    /\ replies = [c \in Callers |-> NoReply]

\* ------------------------------------------------------------ helpers
SetTask(t, rec) == [x \in Registered \cup {t} |-> IF x = t THEN rec ELSE tasks[x]]
RemoveTask(t) == [x \in Registered \ {t} |-> tasks[x]]

\* A delayed quiet check whose timestamp is older than last_output finds
\* `last <= timestamp` false whenever it runs; such a thread has no effect
\* and is dropped.  So is one whose task is gone.
LiveTimers(ts, recs) ==
    {x \in ts : /\ x[1] \in DOMAIN recs
                /\ recs[x[1]].last_output # None
                /\ recs[x[1]].last_output[1] <= x[2]}

\* The handler returns r to the command surface, which hands it to the UI
\* (Complete) before anything else is looked at: the hand-over touches no
\* shared state.
Return(c, r) == callers' = [callers EXCEPT ![c] = [IdleCaller EXCEPT !.pc = "ret", !.ret = r]]
Goto(c, p) == callers' = [callers EXCEPT ![c].pc = p]

MayInvoke(c) == callers[c].pc = "idle"

ReturnPending == \E c \in Callers : callers[c].pc = "ret"

Complete(c) ==
    /\ callers[c].pc = "ret"
    /\ callers' = [callers EXCEPT ![c] = IdleCaller]
    /\ UNCHANGED <<tasks, nextId, clock, sessions, timers, events, stopped>>

Tick ==
    /\ clock < MaxTime
    /\ clock' = clock + 1
    /\ UNCHANGED <<tasks, nextId, sessions, timers, callers, events, stopped>>

\* ------------------------------------------------------------ create_task
CreateTask(c) ==
    /\ MayInvoke(c)
    /\ nextId + 1 \in TaskIds
    /\ nextId' = nextId + 1
    /\ tasks' = SetTask(nextId + 1, NewRecord)
    /\ Return(c, "Ok")
    /\ UNCHANGED <<clock, sessions, timers, events, stopped>>

Invoke(c, op, t) ==
    /\ MayInvoke(c)
    /\ callers' = [callers EXCEPT ![c] =
                     [IdleCaller EXCEPT !.pc = op, !.id = t]]
    /\ UNCHANGED <<tasks, nextId, clock, sessions, timers, events, stopped>>

\* ------------------------------------------------------------- start_task
StartRejectsByStatus(rec) == rec.status \in ActiveStatus
StartRejects(rec) == rec.runtime # None

StartCheck(c) ==
    LET t == callers[c].id IN
    /\ callers[c].pc = "start_check"
    /\ IF t \notin Registered THEN Return(c, "NotFound")
       ELSE IF StartRejects(tasks[t]) THEN Return(c, "AlreadyRunning")
       ELSE Goto(c, "start_read")
    /\ UNCHANGED <<tasks, nextId, clock, sessions, timers, events, stopped>>

StartRead(c) ==
    LET t == callers[c].id IN
    /\ callers[c].pc = "start_read"
    /\ IF t \notin Registered THEN Return(c, "NotFound")
       ELSE Goto(c, "start_spawn")
    /\ UNCHANGED <<tasks, nextId, clock, sessions, timers, events, stopped>>

StartSpawnFail(c) ==
    /\ callers[c].pc = "start_spawn"
    /\ Return(c, "Err")
    /\ UNCHANGED <<tasks, nextId, clock, sessions, timers, events, stopped>>

\* A slot whose session has no thread left and whose child handle nobody holds.
SlotFree(s) ==
    /\ sessions[s].reader \in {"none", "done"}
    /\ sessions[s].waiter \in {"none", "done"}
    /\ \A c \in Callers : callers[c].sess # s
    /\ \A t \in Registered : tasks[t].runtime # Some(s)

StartSpawn(c) ==
    /\ callers[c].pc = "start_spawn"
    /\ \E s \in DOMAIN sessions :
          /\ SlotFree(s)
          /\ \A r \in DOMAIN sessions : SlotFree(r) => s <= r
          /\ sessions' = [sessions EXCEPT ![s] = NewSession(callers[c].id)]
          /\ events' = [events EXCEPT ![s] = NewEvents]
          /\ callers' = [callers EXCEPT ![c].pc = "start_install", ![c].sess = s]
    /\ UNCHANGED <<tasks, nextId, clock, timers, stopped>>

StartedRecord(rec, s, now) ==
    [rec EXCEPT !.status = "Idle", !.started_at = Some(now),
                !.exit_code = None, !.runtime = Some(s)]

StartInstall(c) ==
    LET t == callers[c].id
        s == callers[c].sess IN
    /\ callers[c].pc = "start_install"
    /\ IF t \notin Registered
       THEN /\ Return(c, "NotFound")
            /\ UNCHANGED <<tasks, sessions, events>>
       ELSE /\ tasks' = SetTask(t, StartedRecord(tasks[t], s, clock))
            /\ events' = [events EXCEPT ![s].idle = TRUE]
            /\ sessions' = [sessions EXCEPT
                   ![s].reader = IF @ = "none" THEN "first" ELSE @,
                   ![s].waiter = "poll"]
            /\ Goto(c, "start_return")
    /\ UNCHANGED <<nextId, clock, timers, stopped>>

StartReturn(c) ==
    /\ callers[c].pc = "start_return"
    /\ Return(c, IF callers[c].id \in Registered THEN "Ok" ELSE "NotFound")
    /\ UNCHANGED <<tasks, nextId, clock, sessions, timers, events, stopped>>

\* -------------------------------------------------------------- stop_task
\* stop_task is also called by discard_task, which ignores its result
\* (callers[c].nested) and goes on with the removal of the worktree.
StopLeave(c, r) ==
    IF callers[c].nested THEN Goto(c, "discard_vcs") ELSE Return(c, r)

\* Without a runtime stop_task returns NotRunning from its read block.
StopNotRunningWrites(c) == Goto(c, "stop_write")
StopNotRunning(c) == StopLeave(c, "NotRunning")

StopRead(c) ==
    LET t == callers[c].id IN
    /\ callers[c].pc = "stop_read"
    /\ IF t \notin Registered THEN StopLeave(c, "NotFound")
       ELSE IF tasks[t].runtime = None THEN StopNotRunning(c)
       ELSE callers' = [callers EXCEPT ![c].pc = "stop_kill",
                                       ![c].sess = tasks[t].runtime[1]]
    /\ UNCHANGED <<tasks, nextId, clock, sessions, timers, events, stopped>>

\* The exit waiter takes the child lock for every try_wait of its polling
\* loop, so while it polls, child.try_lock() of stop_task can find the lock
\* held: the kill is then skipped.
LockMayBeHeld(s) == sessions[s].waiter = "poll"

\* Killing a child that has already exited changes nothing.
StopKill(c) ==
    LET s == callers[c].sess IN
    /\ callers[c].pc = "stop_kill"
    /\ \/ /\ sessions[s].child = "running"
          /\ \E code \in ExitCodes \ {0} :
                sessions' = [sessions EXCEPT ![s].child = "exited", ![s].code = code]
       \/ /\ sessions[s].child # "running"
          /\ UNCHANGED sessions
       \/ /\ LockMayBeHeld(s)
          /\ UNCHANGED sessions
    /\ Goto(c, "stop_write")
    /\ UNCHANGED <<tasks, nextId, clock, timers, events, stopped>>

StoppedStatus == "Ready"

StopWrite(c) ==
    LET t == callers[c].id IN
    /\ callers[c].pc = "stop_write"
    /\ IF t \notin Registered
       THEN /\ StopLeave(c, "NotFound")
            /\ UNCHANGED <<tasks, stopped>>
       ELSE /\ tasks' = SetTask(t, [tasks[t] EXCEPT !.status = StoppedStatus])
            /\ stopped' = IF callers[c].nested THEN stopped ELSE stopped \cup {t}
            /\ StopLeave(c, "Ok")
    /\ UNCHANGED <<nextId, clock, sessions, timers, events>>

\* ----------------------------------------------------------- discard_task
DiscardRead(c) ==
    LET t == callers[c].id IN
    /\ callers[c].pc = "discard_read"
    /\ IF t \notin Registered THEN Return(c, "NotFound")
       ELSE IF tasks[t].runtime # None
            THEN callers' = [callers EXCEPT ![c].pc = "stop_read", ![c].nested = TRUE]
            ELSE Goto(c, "discard_vcs")
    /\ UNCHANGED <<tasks, nextId, clock, sessions, timers, events, stopped>>

\* git worktree remove --force, git branch -D, remove_dir_all: best effort,
\* no effect on the registry.
DiscardVcs(c) ==
    /\ callers[c].pc = "discard_vcs"
    /\ Goto(c, "discard_mark")
    /\ UNCHANGED <<tasks, nextId, clock, sessions, timers, events, stopped>>

DiscardMark(c) ==
    LET t == callers[c].id IN
    /\ callers[c].pc = "discard_mark"
    /\ tasks' = IF t \in Registered
                THEN SetTask(t, [tasks[t] EXCEPT !.status = "Discarded",
                                                  !.runtime = None])
                ELSE tasks
    /\ Goto(c, "discard_remove")
    /\ UNCHANGED <<nextId, clock, sessions, timers, events, stopped>>

DiscardRemove(c) ==
    LET t == callers[c].id IN
    /\ callers[c].pc = "discard_remove"
    /\ tasks' = RemoveTask(t)
    /\ stopped' = stopped \ {t}
    /\ timers' = LiveTimers(timers, tasks')
    /\ Return(c, "Ok")
    /\ UNCHANGED <<nextId, clock, sessions, events>>

\* ----------------------------------------------- the child of a session
ChildExit(s) ==
    /\ sessions[s].child = "running"
    /\ \E code \in ExitCodes :
          sessions' = [sessions EXCEPT ![s].child = "exited", ![s].code = code]
    /\ UNCHANGED <<tasks, nextId, clock, timers, callers, events, stopped>>

\* ------------------------------------------------ stream_terminal_output
\* A status write of the reader thread (with emit_status).
ReaderStatus(t, status) ==
    tasks' = SetTask(t, [tasks[t] EXCEPT !.status = status])

\* app.emit("task_terminal_output", ..): the last statement of the loop body,
\* taken together with the registry call before it.
EmitOutput(s) ==
    events' = [events EXCEPT ![s].early = @ \/ ~events[s].idle]

\* reader.read() returns a chunk.  append_terminal_output stores the time and
\* feeds the bytes to the screen; has_recent_approval_prompt then looks for
\* the prompt on the screen.  What the screen shows is decided by the bytes
\* the child wrote: p.  Without a record the answer is false.
ReadChunk(s, p) ==
    LET t == sessions[s].task IN
    /\ Reading(s)
    /\ p => t \in Registered
    /\ tasks' = IF t \in Registered
                THEN SetTask(t, [tasks[t] EXCEPT !.last_output = Some(clock)])
                ELSE tasks
    /\ sessions' = [sessions EXCEPT ![s].reader = IF p THEN "approve" ELSE "working",
                                    ![s].rnow = clock]
    /\ timers' = LiveTimers(timers, tasks')
    /\ UNCHANGED <<nextId, clock, callers, events, stopped>>

\* Ok(0) or Err: the PTY is closed once the child is gone.
ReadEof(s) ==
    /\ Reading(s)
    /\ sessions[s].child = "exited"
    /\ sessions' = [sessions EXCEPT ![s].reader = "done"]
    /\ UNCHANGED <<tasks, nextId, clock, timers, callers, events, stopped>>

mark_waiting_for_approval(s) ==
    LET t == sessions[s].task IN
    /\ sessions[s].reader = "approve"
    /\ IF t \in Registered /\ tasks[t].status # "AwaitingApproval"
       THEN ReaderStatus(t, "AwaitingApproval")
       ELSE UNCHANGED tasks
    /\ EmitOutput(s)
    /\ sessions' = [sessions EXCEPT ![s].reader = "read", ![s].rnow = 0]
    /\ UNCHANGED <<nextId, clock, timers, callers, stopped>>

MarksWorking(rec) == rec.status # "Working"

mark_working_if_needed(s) ==
    LET t == sessions[s].task IN
    /\ sessions[s].reader = "working"
    /\ IF t \in Registered /\ MarksWorking(tasks[t])
       THEN ReaderStatus(t, "Working")
       ELSE UNCHANGED tasks
    /\ sessions' = [sessions EXCEPT ![s].reader = "idleaw"]
    /\ UNCHANGED <<nextId, clock, timers, callers, events, stopped>>

\* mark_idle_from_awaiting, then the spawn of the delayed quiet check.
mark_idle_from_awaiting(s) ==
    LET t == sessions[s].task IN
    /\ sessions[s].reader = "idleaw"
    /\ IF /\ t \in Registered
          /\ tasks[t].runtime # None
          /\ tasks[t].status = "AwaitingApproval"
       THEN ReaderStatus(t, "Idle")
       ELSE UNCHANGED tasks
    /\ timers' = LiveTimers(timers \cup {<<t, sessions[s].rnow>>}, tasks')
    /\ EmitOutput(s)
    /\ sessions' = [sessions EXCEPT ![s].reader = "read", ![s].rnow = 0]
    /\ UNCHANGED <<nextId, clock, callers, stopped>>

\* The delayed thread: sleep(1000 ms), then mark_idle_if_quiet(task, now).
IsQuiet(rec, ts) ==
    /\ rec.last_output # None
    /\ rec.last_output[1] <= ts
    /\ rec.runtime # None
    /\ rec.status = "Working"

mark_idle_if_quiet(t, ts) ==
    /\ <<t, ts>> \in timers
    /\ clock >= ts + 1
    /\ timers' = timers \ {<<t, ts>>}
    /\ tasks' = IF t \in Registered /\ IsQuiet(tasks[t], ts)
                THEN SetTask(t, [tasks[t] EXCEPT !.status = "Idle"])
                ELSE tasks
    /\ UNCHANGED <<nextId, clock, sessions, callers, events, stopped>>

\* ----------------------------------------------------------- wait_for_exit
\* The polling loop: child.lock(), try_wait(), unlock; Ok(None) sleeps 200 ms
\* and polls again, Ok(Some(status)) leaves the loop with the exit code.
WaiterPoll(s) ==
    /\ sessions[s].waiter = "poll"
    /\ sessions[s].child = "exited"
    /\ sessions' = [sessions EXCEPT ![s].waiter = "finish"]
    /\ UNCHANGED <<tasks, nextId, clock, timers, callers, events, stopped>>

FinishStatusNoReady(status, code) ==
    IF status = "Stopped" THEN "Stopped"
    ELSE IF status = "Discarded" THEN "Discarded"
    ELSE IF code = 0 THEN "Completed"
    ELSE "Failed"

FinishStatus(status, code) ==
    IF status = "Stopped" THEN "Stopped"
    ELSE IF status = "Discarded" THEN "Discarded"
    ELSE IF status = "Ready" THEN "Ready"
    ELSE IF code = 0 THEN "Completed"
    ELSE "Failed"

FinishedRecordKeepsEnd(rec, code, now) ==
    [rec EXCEPT !.exit_code = Some(code),
                !.runtime = None,
                !.status = FinishStatus(rec.status, code)]

FinishedRecord(rec, code, now) ==
    [rec EXCEPT !.exit_code = Some(code), !.ended_at = Some(now),
                !.runtime = None,
                !.status = FinishStatus(rec.status, code)]

\* wait_for_exit ignores the result of finish_task and emits terminal_exit.
EmitsExitOnlyIfFound(found) == found
EmitsExit(found) == TRUE

finish_task(s) ==
    LET t == sessions[s].task
        found == t \in Registered IN
    /\ sessions[s].waiter = "finish"
    /\ tasks' = IF found
                THEN SetTask(t, FinishedRecord(tasks[t], sessions[s].code, clock))
                ELSE tasks
    /\ stopped' = stopped \ {t}
    /\ sessions' = [sessions EXCEPT
                       ![s].code = 0,
                       ![s].waiter = IF EmitsExit(found) THEN "emit" ELSE "done"]
    /\ UNCHANGED <<nextId, clock, timers, callers, events>>

EmitExit(s) ==
    /\ sessions[s].waiter = "emit"
    /\ events' = [events EXCEPT ![s].exits = @ + 1]
    /\ sessions' = [sessions EXCEPT ![s].waiter = "done"]
    /\ UNCHANGED <<tasks, nextId, clock, timers, callers, stopped>>

Running ==
    \/ Tick
    \/ \E c \in Sequential :
         \/ CreateTask(c)
         \/ \E t \in TaskIds :
              \E op \in {"start_check", "stop_read", "discard_read"} : Invoke(c, op, t)
         \/ StartCheck(c)
         \/ StartRead(c)
         \/ StartSpawnFail(c)
         \/ StartSpawn(c)
         \/ StartInstall(c)
         \/ StartReturn(c)
         \/ StopRead(c)
         \/ StopKill(c)
         \/ StopWrite(c)
         \/ DiscardRead(c)
         \/ DiscardVcs(c)
         \/ DiscardMark(c)
         \/ DiscardRemove(c)
    \/ \E s \in SessionIds :
         \/ ChildExit(s)
         \/ \E p \in BOOLEAN : ReadChunk(s, p)
         \/ ReadEof(s)
         \/ mark_waiting_for_approval(s)
         \/ mark_working_if_needed(s)
         \/ mark_idle_from_awaiting(s)
         \/ WaiterPoll(s)
         \/ finish_task(s)
         \/ EmitExit(s)
    \/ \E t \in TaskIds, ts \in 0..MaxTime : mark_idle_if_quiet(t, ts)

\* Spec follows the registry and its threads: the repository stays as it is.
Next ==
    \/ (\E c \in Sequential : Complete(c))
          /\ UNCHANGED vcsVars /\ UNCHANGED termVars /\ UNCHANGED auxVars
    \/ ~ReturnPending /\ Running
          /\ UNCHANGED vcsVars /\ UNCHANGED termVars /\ UNCHANGED auxVars

Spec == Init /\ [][Next]_vars

\* The exit waiter of a session runs on the blocking pool of the async
\* runtime, a thread of its own: it is scheduled whenever it can take a step.
\* A hand-over of a handler's result, which the model takes before any other
\* step, only delays it, so its fairness is strong; the hand-over itself is
\* taken once it is due.
WaiterThread ==
    /\ ~ReturnPending
    /\ \E s \in SessionIds : WaiterPoll(s) \/ finish_task(s) \/ EmitExit(s)
    /\ UNCHANGED vcsVars /\ UNCHANGED termVars /\ UNCHANGED auxVars

HandOver ==
    /\ \E c \in Sequential : Complete(c)
    /\ UNCHANGED vcsVars /\ UNCHANGED termVars /\ UNCHANGED auxVars

FairSpec == Spec /\ SF_vars(WaiterThread) /\ WF_vars(HandOver)

\* ------------------------------------------------- start_task in parallel
\* The command surface runs its async commands concurrently: two start_task
\* requests for one task can be in flight at once, each with the child it
\* spawned. The race is over before the 1000 ms of a quiet check have passed.

RaceSlots == 1..(MaxSessions + 1)

\* One task, created and not started.
RaceInit ==
    /\ tasks = [t \in {1} |-> NewRecord]
    /\ nextId = 1
    /\ clock = 0
    /\ sessions = [s \in RaceSlots |-> FreeSession]
    /\ timers = {}
    /\ callers = [c \in Callers |-> IdleCaller]
    /\ events = [s \in RaceSlots |-> NewEvents]
    /\ stopped = {}
    /\ TermInit
    /\ AuxInit
    /\ reqs = [c \in Callers |-> NoRequest]
    /\ meta = <<>>
    /\ repo = EmptyRepo
    /\ bus = <<>>
    /\ replies = [c \in Callers |-> NoReply]

RaceRunning ==
    \/ \E c \in Callers :
         \/ Invoke(c, "start_check", 1)
         \/ StartCheck(c)
         \/ StartRead(c)
         \/ StartSpawnFail(c)
         \/ StartSpawn(c)
         \/ StartInstall(c)
         \/ StartReturn(c)
    \/ \E s \in RaceSlots :
         \/ ChildExit(s)
         \/ \E p \in BOOLEAN : ReadChunk(s, p)
         \/ ReadEof(s)
         \/ mark_waiting_for_approval(s)
         \/ mark_working_if_needed(s)
         \/ mark_idle_from_awaiting(s)
         \/ WaiterPoll(s)
         \/ finish_task(s)
         \/ EmitExit(s)

RaceNext ==
    \/ (\E c \in Callers : Complete(c))
          /\ UNCHANGED vcsVars /\ UNCHANGED termVars /\ UNCHANGED auxVars
    \/ ~ReturnPending /\ RaceRunning
          /\ UNCHANGED vcsVars /\ UNCHANGED termVars /\ UNCHANGED auxVars

RaceSpec == RaceInit /\ [][RaceNext]_vars

\* ============================================== the repository on disk
\* create_task, register_existing_worktrees and discard_task with the git
\* commands and file system calls they make, called from both request threads.

\* Task ids handed out while the repository is followed.
VcsTaskIds == {1, 2}

\* Branch names a request can carry, as character sequences.
BranchWords == { <<>>, <<" ">>, <<"b">>, <<" ", "b", " ">> }
BranchInputs == {None} \cup {Some(w) : w \in BranchWords}

\* base_ref of a request: absent, a ref of the repository, an unknown ref.
RefInputs == {None, Some("dev"), Some("gone")}

Requests ==
    {[NoRequest EXCEPT !.op = "create", !.repo_ok = ok, !.base_ref = ref,
                       !.branch_name = b] :
        ok \in BOOLEAN, ref \in RefInputs, b \in BranchInputs}

\* str::trim
RECURSIVE TrimStart(_)
TrimStart(w) == IF w # <<>> /\ Head(w) = " " THEN TrimStart(Tail(w)) ELSE w

RECURSIVE TrimEnd(_)
TrimEnd(w) ==
    IF w # <<>> /\ w[Len(w)] = " " THEN TrimEnd(SubSeq(w, 1, Len(w) - 1)) ELSE w

Trim(w) == TrimEnd(TrimStart(w))

\* branch_name.map(trim).filter(not empty): None stands for the
\* "Branch name is required." error.
RequiredBranchUntrimmed(b) ==
    IF b = None \/ b[1] = <<>> THEN None ELSE Some(Trim(b[1]))

RequiredBranch(b) ==
    IF b = None \/ Trim(b[1]) = <<>> THEN None ELSE Some(Trim(b[1]))

\* git rev-parse <ref>: the commit id, or None when git fails.
RevParse(ref) ==
    CASE ref = "HEAD" -> Some("aaa")
      [] ref = "dev" -> Some("bbb")
      [] OTHER -> None

\* Paths: the repo root, <repo_root>/.illuc/worktrees/<name>, or elsewhere.
RootPath == [under |-> "root", name |-> ""]
ManagedPath(name) == [under |-> "worktrees", name |-> name]
OutsidePath(name) == [under |-> "elsewhere", name |-> name]

\* A repository that an earlier run of the program and its user have worked
\* in: one worktree left under .illuc/worktrees, one elsewhere.
UsedRepo ==
    [branches |-> {<<"o">>, <<"x">>},
     worktrees |-> {[path |-> ManagedPath("old"), branch |-> Some(<<"o">>)],
                    [path |-> OutsidePath("side"), branch |-> Some(<<"x">>)]},
     dirs |-> {ManagedPath("old"), OutsidePath("side")}]

VcsInit ==
    /\ RegistryInit
    /\ TermInit
    /\ AuxInit
    /\ reqs = [c \in Callers |-> NoRequest]
    /\ meta = <<>>
    /\ repo \in {EmptyRepo, UsedRepo}
    /\ bus = <<>>
    /\ replies = [c \in Callers |-> NoReply]

\* git worktree add -b <branch> <path> <ref>
WorktreeAdd(r, path, branch) ==
    [r EXCEPT !.branches = @ \cup {branch},
              !.worktrees = @ \cup {[path |-> path, branch |-> Some(branch)]},
              !.dirs = @ \cup {path}]

\* git worktree remove --force <path>
WorktreeRemove(r, path) ==
    [r EXCEPT !.worktrees = {e \in @ : e.path # path},
              !.dirs = @ \ {path}]

\* git branch -D <branch>
BranchDelete(r, branch) == [r EXCEPT !.branches = @ \ {branch}]

\* std::fs::remove_dir_all(path)
RemoveDirAll(r, path) == [r EXCEPT !.dirs = @ \ {path}]

\* git worktree list --porcelain: the main worktree and the linked ones.
ListWorktrees(r) == {[path |-> RootPath, branch |-> Some(<<"m">>)]} \cup r.worktrees

\* list_branches
list_branches(r) == r.branches

SetMeta(t, m) == [x \in DOMAIN meta \cup {t} |-> IF x = t THEN m ELSE meta[x]]
RemoveMeta(t) == [x \in DOMAIN meta \ {t} |-> meta[x]]

\* emit_status(app, &summary): the payload is the summary.
StatusEvent(t, status, m) ==
    [task_id |-> t, status |-> status,
     worktree_path |-> m.worktree_path, base_commit |-> m.base_commit]

\* The handler returns r; its request and locals go when the result has been
\* handed over (VcsComplete).
VcsReturn(c, r) ==
    /\ Return(c, r)
    /\ UNCHANGED reqs

\* ------------------------------------------------- create_task, step by step
\* get_repo_root, ensure_directory, validate_git_repo, rev-parse <base_ref>:
\* the commit id, or None when one of them fails.
Resolved(req) ==
    IF ~req.repo_ok THEN None
    ELSE RevParse(IF req.base_ref = None THEN "HEAD" ELSE req.base_ref[1])

\* The call up to the `worktree add`: the repository checks, rev-parse,
\* Uuid::new_v4(), the branch name check, worktree_path = managed_root/<id>.
\* None of it writes anything the other threads read.
CreateCheck(c, req) ==
    LET branch == RequiredBranch(req.branch_name) IN
    /\ MayInvoke(c)
    /\ IF Resolved(req) = None
       THEN /\ Return(c, "GitCommand")
            /\ reqs' = [reqs EXCEPT ![c] = req]
            /\ UNCHANGED nextId
       ELSE IF branch = None
       THEN /\ Return(c, "Message")
            /\ reqs' = [reqs EXCEPT ![c] = req]
            /\ UNCHANGED nextId
       ELSE /\ nextId + 1 \in VcsTaskIds
            /\ nextId' = nextId + 1
            /\ callers' = [callers EXCEPT ![c].pc = "create_add", ![c].id = nextId + 1]
            /\ reqs' = [reqs EXCEPT ![c] =
                          [req EXCEPT !.commit = Resolved(req),
                                      !.branch = branch,
                                      !.path = Some(ManagedPath(ToString(nextId + 1)))]]
    /\ UNCHANGED <<tasks, clock, sessions, timers, events, stopped,
                   meta, repo, bus, replies>>

\* After a failed `worktree add` the `?` returns the error.
RegistersAlways(added) == TRUE
RegistersIfAdded(added) == added

\* run_git worktree add: it succeeds or fails.
CreateAdd(c) ==
    /\ callers[c].pc = "create_add"
    /\ \E added \in BOOLEAN :
          /\ repo' = IF added
                     THEN WorktreeAdd(repo, reqs[c].path[1], reqs[c].branch[1])
                     ELSE repo
          /\ IF RegistersIfAdded(added)
             THEN Goto(c, "create_insert") /\ UNCHANGED reqs
             ELSE VcsReturn(c, "GitCommand")
    /\ UNCHANGED <<tasks, nextId, clock, sessions, timers, events, stopped,
                   meta, bus, replies>>

NewMeta(path, branch, commit) ==
    [worktree_path |-> path, branch_name |-> branch, base_commit |-> commit]

\* tasks.insert under the write lock, emit_status, Ok(summary).
CreateInsert(c) ==
    LET t == callers[c].id
        m == NewMeta(reqs[c].path[1], reqs[c].branch[1], reqs[c].commit[1]) IN
    /\ callers[c].pc = "create_insert"
    /\ tasks' = SetTask(t, NewRecord)
    /\ meta' = SetMeta(t, m)
    /\ bus' = Append(bus, StatusEvent(t, NewRecord.status, m))
    /\ VcsReturn(c, "Ok")
    /\ UNCHANGED <<nextId, clock, sessions, timers, events, stopped, repo, replies>>

\* ------------------------------------------- register_existing_worktrees
\* The first two filters of the loop look at the entry alone: the repo root
\* and paths outside <repo_root>/.illuc/worktrees are passed over.
Candidates(entries) ==
    {e \in entries : e.path # RootPath /\ e.path.under = "worktrees"}

\* ensure_directory .. list_worktrees: any of the git calls can fail.
RegisterList(c) ==
    /\ MayInvoke(c)
    /\ \/ /\ Return(c, "GitCommand")
          /\ reqs' = [reqs EXCEPT ![c].op = "register"]
       \/ /\ Goto(c, "register_next")
          /\ reqs' = [reqs EXCEPT ![c].op = "register",
                                  ![c].entries = Candidates(ListWorktrees(repo)),
                                  ![c].commit = RevParse("HEAD")]
    /\ UNCHANGED <<tasks, nextId, clock, sessions, timers, events, stopped,
                   meta, repo, bus, replies>>

\* contains_worktree_path, under the read lock.
contains_worktree_path(path) ==
    \E t \in Registered \cap DOMAIN meta : meta[t].worktree_path = path

\* The loop takes the next entry; one that is registered is passed over.
RegisterNext(c) ==
    /\ callers[c].pc = "register_next"
    /\ \E e \in reqs[c].entries :
          IF contains_worktree_path(e.path)
          THEN /\ reqs' = [reqs EXCEPT ![c].entries = @ \ {e}]
               /\ UNCHANGED callers
          ELSE /\ reqs' = [reqs EXCEPT ![c].entries = @ \ {e},
                                       ![c].path = Some(e.path),
                                       ![c].branch = e.branch]
               /\ Goto(c, "register_insert")
    /\ UNCHANGED <<tasks, nextId, clock, sessions, timers, events, stopped,
                   meta, repo, bus, replies>>

\* entry.branch cleaned of refs/heads/, or "detached-<head>".
EntryBranch(b) == IF b = None THEN <<"detached">> ELSE b[1]

\* Uuid::new_v4(), tasks.insert under the write lock, emit_status.
RegisterInsert(c) ==
    LET t == nextId + 1
        m == NewMeta(reqs[c].path[1], EntryBranch(reqs[c].branch), reqs[c].commit[1]) IN
    /\ callers[c].pc = "register_insert"
    /\ t \in VcsTaskIds
    /\ nextId' = t
    /\ tasks' = SetTask(t, NewRecord)
    /\ meta' = SetMeta(t, m)
    /\ bus' = Append(bus, StatusEvent(t, NewRecord.status, m))
    /\ Goto(c, "register_next")
    /\ UNCHANGED <<clock, sessions, timers, events, stopped, reqs, repo, replies>>

RegisterDone(c) ==
    /\ callers[c].pc = "register_next"
    /\ reqs[c].entries = {}
    /\ VcsReturn(c, "Ok")
    /\ UNCHANGED <<tasks, nextId, clock, sessions, timers, events, stopped,
                   meta, repo, bus, replies>>

\* ------------------------------------------- discard_task and the disk
\* What discard_task has returned to c is kept for the caller, with the task
\* id it was called for and the path and branch it had copied (None when it
\* found no record).
Replied(c) ==
    replies' = IF callers'[c].pc = "ret"
               THEN [replies EXCEPT ![c] =
                        [id |-> callers[c].id, ret |-> callers'[c].ret,
                         path |-> reqs'[c].path, branch |-> reqs'[c].branch]]
               ELSE replies

\* Each request thread asks for the discard of a task once.
VcsDiscardInvoke(c, t) ==
    /\ replies[c] = NoReply
    /\ Invoke(c, "discard_read", t)
    /\ UNCHANGED vcsVars

\* The read block also copies worktree_path and branch_name.
VcsDiscardRead(c) ==
    LET t == callers[c].id IN
    /\ DiscardRead(c)
    /\ reqs' = IF t \in Registered
               THEN [reqs EXCEPT ![c].op = "discard",
                                 ![c].path = Some(meta[t].worktree_path),
                                 ![c].branch = Some(meta[t].branch_name)]
               ELSE [reqs EXCEPT ![c].op = "discard"]
    /\ Replied(c)
    /\ UNCHANGED <<meta, repo, bus>>

\* worktree remove --force, branch -D, then remove_dir_all if the path still
\* exists: each result is ignored, each command works or leaves things as
\* they are.
GitCleanup(r, path, branch, removed, deleted, erased) ==
    LET r1 == IF removed THEN WorktreeRemove(r, path) ELSE r
        r2 == IF deleted THEN BranchDelete(r1, branch) ELSE r1
    IN  IF path \in r2.dirs /\ erased THEN RemoveDirAll(r2, path) ELSE r2

\* `let _ =`: no outcome of the three calls ends discard_task.
EndsDiscardUnlessRemoved(removed, deleted, erased) == ~removed
EndsDiscard(removed, deleted, erased) == FALSE

VcsDiscardVcs(c) ==
    /\ callers[c].pc = "discard_vcs"
    /\ \E removed, deleted, erased \in BOOLEAN :
          /\ repo' = GitCleanup(repo, reqs[c].path[1], reqs[c].branch[1],
                                removed, deleted, erased)
          /\ IF EndsDiscard(removed, deleted, erased)
             THEN /\ Return(c, "GitCommand")
                  /\ UNCHANGED <<tasks, nextId, clock, sessions, timers, events, stopped>>
             ELSE DiscardVcs(c)
    /\ UNCHANGED <<reqs, meta, bus>>
    /\ Replied(c)

\* The write block that marks the record also emits its summary.
VcsDiscardMark(c) ==
    LET t == callers[c].id IN
    /\ DiscardMark(c)
    /\ bus' = IF t \in Registered
              THEN Append(bus, StatusEvent(t, "Discarded", meta[t]))
              ELSE bus
    /\ UNCHANGED <<reqs, meta, repo, replies>>

VcsDiscardRemove(c) ==
    /\ DiscardRemove(c)
    /\ UNCHANGED <<reqs, repo, bus>>
    /\ Replied(c)
    /\ meta' = RemoveMeta(callers[c].id)

VcsComplete(c) ==
    /\ Complete(c)
    /\ reqs' = [reqs EXCEPT ![c] = NoRequest]
    /\ UNCHANGED <<meta, repo, bus, replies>>

VcsRunning ==
    \E c \in Callers :
       \/ \E req \in Requests : CreateCheck(c, req)
       \/ CreateAdd(c)
       \/ CreateInsert(c)
       \/ RegisterList(c)
       \/ RegisterNext(c)
       \/ RegisterInsert(c)
       \/ RegisterDone(c)
       \/ \E t \in VcsTaskIds : VcsDiscardInvoke(c, t)
       \/ VcsDiscardRead(c)
       \/ VcsDiscardVcs(c)
       \/ VcsDiscardMark(c)
       \/ VcsDiscardRemove(c)

VcsNext ==
    \/ (\E c \in Callers : VcsComplete(c)) /\ UNCHANGED termVars /\ UNCHANGED auxVars
    \/ ~ReturnPending /\ VcsRunning /\ UNCHANGED termVars /\ UNCHANGED auxVars

VcsSpec == VcsInit /\ [][VcsNext]_vars

\* =================================================== the virtual screen
\* Screen and ScreenPerformer, driven by a vte parser that lives next to the
\* screen and is advanced one byte at a time. Bytes are written as strings:
\* "ESC", "LF", "CR", "BS" and "HT" are the control bytes 0x1b, 0x0a, 0x0d,
\* 0x08 and 0x09, every other string is the printable character it shows.
MaxFeeds == 3

\* Sizes of the screens: <<rows, cols>>.
Sizes == { <<1, 1>>, <<2, 3>> }

C0 == {"LF", "CR", "BS", "HT"}
Digits == {"0", "1", "2"}
DigitOf(b) == IF b = "0" THEN 0 ELSE IF b = "1" THEN 1 ELSE 2

\* What the child writes, cut where a read may cut it: whole control
\* sequences and pieces of them.
Chunks ==
    { <<"a">>, <<"b", "a">>, <<"LF">>, <<"CR">>, <<"BS">>, <<"HT">>,
      <<"ESC", "[", "A">>, <<"ESC", "[", "B">>, <<"ESC", "[", "C">>,
      <<"ESC", "[", "D">>, <<"ESC", "[", "H">>, <<"ESC", "[", "2", ";", "2", "H">>,
      <<"ESC", "[", "2", "J">>, <<"ESC", "[", "K">>,
      <<"ESC">>, <<"[">>, <<"ESC", "[">>, <<"ESC", "[", "2">>, <<"2">>,
      <<";", "2", "H">>, <<"2", "J">>, <<"J">>, <<"H">>, <<"a", "ESC">> }

Min(a, b) == IF a < b THEN a ELSE b
Max(a, b) == IF a > b THEN a ELSE b
\* usize::saturating_sub
SatSub(a, b) == IF a > b THEN a - b ELSE 0

SpaceRow(cols) == [c \in 1..cols |-> " "]

\* Screen::scroll_up: drop the first row and push an empty one, `lines` times.
RECURSIVE ScrollGrid(_, _, _)
ScrollGrid(grid, cols, lines) ==
    IF lines = 0 THEN grid
    ELSE ScrollGrid(Append(Tail(grid), SpaceRow(cols)), cols, lines - 1)

RECURSIVE GrowGrid(_, _, _)
GrowGrid(grid, cols, lines) ==
    IF lines = 0 THEN grid
    ELSE GrowGrid(Append(grid, SpaceRow(cols)), cols, lines - 1)

scroll_up_grows(s, lines) ==
    [s EXCEPT !.grid = GrowGrid(@, s.cols, lines),
              !.cursor_row = SatSub(@, lines)]

scroll_up(s, lines) ==
    [s EXCEPT !.grid = ScrollGrid(@, s.cols, lines),
              !.cursor_row = SatSub(@, lines)]

\* if cursor_row >= rows { scroll_up(1); cursor_row = rows.saturating_sub(1) }
ScrollIfBelow(s) ==
    IF s.cursor_row >= s.rows
    THEN [scroll_up(s, 1) EXCEPT !.cursor_row = SatSub(s.rows, 1)]
    ELSE s

clear_screen(s) ==
    [s EXCEPT !.grid = [r \in DOMAIN s.grid |-> [c \in DOMAIN s.grid[r] |-> " "]],
              !.cursor_row = 0, !.cursor_col = 0]

clear_line_from_cursor(s) ==
    IF s.cursor_row < s.rows
    THEN [s EXCEPT !.grid[s.cursor_row + 1] =
                      [c \in DOMAIN @ |-> IF c - 1 >= s.cursor_col /\ c - 1 < s.cols
                                          THEN " " ELSE @[c]]]
    ELSE s

set_cursor(s, row, col) ==
    [s EXCEPT !.cursor_row = Min(row, SatSub(s.rows, 1)),
              !.cursor_col = Min(col, SatSub(s.cols, 1))]

\* Joins the rows, each trimmed of its trailing spaces, with newlines.
RECURSIVE JoinRows(_)
JoinRows(rows) ==
    IF rows = <<>> THEN <<>>
    ELSE IF Len(rows) = 1 THEN TrimEnd(rows[1])
    ELSE TrimEnd(rows[1]) \o <<"LF">> \o JoinRows(Tail(rows))

full_text(s) == JoinRows(s.grid)

\* ScreenPerformer::print
print(s, ch) ==
    LET s1 == ScrollIfBelow(s)
        s2 == IF s1.cursor_col >= s1.cols
              THEN ScrollIfBelow([s1 EXCEPT !.cursor_col = 0, !.cursor_row = @ + 1])
              ELSE s1
    IN  IF s2.cursor_row < s2.rows /\ s2.cursor_col < s2.cols
        THEN [s2 EXCEPT !.grid[s2.cursor_row + 1][s2.cursor_col + 1] = ch,
                        !.cursor_col = @ + 1]
        ELSE s2

\* ScreenPerformer::execute
execute(s, byte) ==
    IF byte = "LF"
    THEN ScrollIfBelow([s EXCEPT !.cursor_col = 0, !.cursor_row = @ + 1])
    ELSE IF byte = "CR" THEN [s EXCEPT !.cursor_col = 0]
    ELSE IF byte = "BS" THEN [s EXCEPT !.cursor_col = IF @ > 0 THEN @ - 1 ELSE @]
    ELSE IF byte = "HT"
    THEN [s EXCEPT !.cursor_col = Min(((@ \div 8) + 1) * 8, SatSub(s.cols, 1))]
    ELSE s

\* The closure first_param of csi_dispatch: the parameter at idx, at least 1,
\* or the default when there is no such parameter.
first_param(params, idx, default) ==
    IF idx + 1 <= Len(params) THEN Max(params[idx + 1], 1) ELSE default

\* usize::MAX, as far as the model counts: only ever the larger side of a min.
UsizeMax == 2147483647
\* `rows - 1` on usize where overflow is not checked.
WrappingSub1(n) == IF n = 0 THEN UsizeMax ELSE n - 1

\* ScreenPerformer::csi_dispatch
csi_dispatch(s, params, action) ==
    IF action = "A" THEN [s EXCEPT !.cursor_row = SatSub(@, first_param(params, 0, 1))]
    ELSE IF action = "B"
    THEN [s EXCEPT !.cursor_row = Min(@ + first_param(params, 0, 1), WrappingSub1(s.rows))]
    ELSE IF action = "C"
    THEN [s EXCEPT !.cursor_col = Min(@ + first_param(params, 0, 1), WrappingSub1(s.cols))]
    ELSE IF action = "D" THEN [s EXCEPT !.cursor_col = SatSub(@, first_param(params, 0, 1))]
    ELSE IF action \in {"H", "f"}
    THEN set_cursor(s, SatSub(first_param(params, 0, 1), 1),
                       SatSub(first_param(params, 1, 1), 1))
    ELSE IF action = "J"
    THEN IF first_param(params, 0, 0) = 2 THEN clear_screen(s)
         ELSE clear_line_from_cursor(s)
    ELSE IF action = "K" THEN clear_line_from_cursor(s)
    ELSE s

\* vte::Parser::advance for one byte, with ScreenPerformer as the performer.
\* Control bytes are executed in every state; ESC starts an escape sequence;
\* ESC [ starts a control sequence, whose parameters are digits separated by
\* ';' and which any other byte ends and dispatches, with the parameter in
\* progress pushed last; any other escape sequence ends at its next byte and
\* is not seen by the performer (esc_dispatch is not overridden).
advance(st, byte) ==
    LET p == st.parser
        s == st.screen
    IN  IF byte \in C0 THEN [st EXCEPT !.screen = execute(s, byte)]
        ELSE IF byte = "ESC"
        THEN [st EXCEPT !.parser = [state |-> "escape", params |-> <<>>, param |-> 0]]
        ELSE IF p.state = "ground" THEN [st EXCEPT !.screen = print(s, byte)]
        ELSE IF p.state = "escape"
        THEN IF byte = "["
             THEN [st EXCEPT !.parser = [state |-> "csi", params |-> <<>>, param |-> 0]]
             ELSE [st EXCEPT !.parser = Parser_new]
        ELSE IF byte \in Digits
        THEN [st EXCEPT !.parser.param = Min(@ * 10 + DigitOf(byte), 65535)]
        ELSE IF byte = ";"
        THEN [st EXCEPT !.parser.params = Append(@, p.param), !.parser.param = 0]
        ELSE [screen |-> csi_dispatch(s, Append(p.params, p.param), byte),
              parser |-> Parser_new]

\* for byte in raw { parser.advance(&mut performer, *byte) }
RECURSIVE Feed(_, _)
Feed(st, raw) ==
    IF raw = <<>> THEN st ELSE Feed(advance(st, Head(raw)), Tail(raw))

\* The parser a chunk is fed to is the one the chunk before it left.
ParserAtChunkFresh(p) == Parser_new
ParserAtChunk(p) == p

FeedChunk(st, raw) == Feed([st EXCEPT !.parser = ParserAtChunk(@)], raw)

\* append_terminal_output: the chunk goes through the parser into the screen.
append_terminal_output(chunk) ==
    /\ Len(fed) < MaxFeeds
    /\ LET st == FeedChunk([screen |-> screen, parser |-> parser], chunk)
       IN  /\ screen' = st.screen
           /\ parser' = st.parser
    /\ fed' = Append(fed, chunk)
    /\ UNCHANGED <<agent, notified>>

\* A fresh screen of one of the sizes, nothing fed.
ScreenInit ==
    /\ RegistryInit
    /\ AuxInit
    /\ reqs = [c \in Callers |-> NoRequest]
    /\ meta = <<>>
    /\ repo = EmptyRepo
    /\ bus = <<>>
    /\ replies = [c \in Callers |-> NoReply]
    /\ \E size \in Sizes : screen = Screen_new(size[1], size[2])
    /\ parser = Parser_new
    /\ fed = <<>>
    /\ agent = NewAgent("codex")
    /\ notified = <<>>

ScreenNext ==
    /\ \E chunk \in Chunks : append_terminal_output(chunk)
    /\ UNCHANGED registryVars
    /\ UNCHANGED vcsVars
    /\ UNCHANGED auxVars

ScreenSpec == ScreenInit /\ [][ScreenNext]_vars

\* ============================================== the screen when resized
\* terminal_resize puts the size the front end asks for into the screen,
\* zero included; the reader thread goes on feeding chunks to it.

\* rows and cols of a TerminalResizeRequest (u16).
ResizeRows == {0, 1, 2}
ResizeCols == {0, 1, 3}

ResizeChunks ==
    { <<"a">>, <<"b", "a">>, <<"LF">>, <<"ESC", "[", "B">>, <<"ESC", "[", "C">>,
      <<"ESC", "[", "H">>, <<"ESC", "[", "K">> }

\* self.grid.get(r).and_then(|row| row.get(c)).unwrap_or(&' ')
CellOr(grid, r, c) ==
    IF r \in DOMAIN grid /\ c \in DOMAIN grid[r] THEN grid[r][c] ELSE " "

resize_blank(s, rows, cols) ==
    [rows |-> rows, cols |-> cols,
     grid |-> [r \in 1..rows |-> [c \in 1..cols |-> " "]],
     cursor_row |-> Min(s.cursor_row, SatSub(rows, 1)),
     cursor_col |-> Min(s.cursor_col, SatSub(cols, 1))]

\* Screen::resize
resize(s, rows, cols) ==
    [rows |-> rows, cols |-> cols,
     grid |-> [r \in 1..rows |-> [c \in 1..cols |->
                  IF r <= Min(rows, s.rows) /\ c <= Min(cols, s.cols)
                  THEN CellOr(s.grid, r, c) ELSE " "]],
     cursor_row |-> Min(s.cursor_row, SatSub(rows, 1)),
     cursor_col |-> Min(s.cursor_col, SatSub(cols, 1))]

\* Vec::remove(0) in scroll_up panics on a grid without rows.
scroll_panics(s) == s.cursor_row >= s.rows /\ s.grid = <<>>

\* The calls of print that reach scroll_up.
print_panics(s) ==
    \/ scroll_panics(s)
    \/ LET s1 == ScrollIfBelow(s) IN
       /\ s1.cursor_col >= s1.cols
       /\ scroll_panics([s1 EXCEPT !.cursor_col = 0, !.cursor_row = @ + 1])

\* `rows - 1` and `cols - 1` of CSI B and C panic in a build that checks
\* overflow; LF reaches scroll_up.
advance_panics(st, byte, overflow_checks) ==
    IF byte = "LF" THEN scroll_panics([st.screen EXCEPT !.cursor_row = @ + 1])
    ELSE IF byte \in C0 \/ byte = "ESC" THEN FALSE
    ELSE IF st.parser.state = "ground" THEN print_panics(st.screen)
    ELSE IF st.parser.state = "escape" \/ byte \in Digits \/ byte = ";" THEN FALSE
    ELSE /\ overflow_checks
         /\ \/ byte = "B" /\ st.screen.rows = 0
            \/ byte = "C" /\ st.screen.cols = 0

\* The loop of parser.advance over the chunk, up to the byte that panics:
\* the thread unwinds there and the screen stays as the bytes before left it.
RECURSIVE FeedOrPanic(_, _, _)
FeedOrPanic(st, raw, overflow_checks) ==
    IF raw = <<>> THEN [st |-> st, panicked |-> FALSE]
    ELSE IF advance_panics(st, Head(raw), overflow_checks)
    THEN [st |-> st, panicked |-> TRUE]
    ELSE FeedOrPanic(advance(st, Head(raw)), Tail(raw), overflow_checks)

\* append_terminal_output in the reader thread, which a panic ends.
ReaderFeeds(chunk) ==
    /\ ~host.panicked
    /\ Len(fed) < MaxFeeds
    /\ LET out == FeedOrPanic([screen |-> screen, parser |-> parser], chunk,
                              host.overflow_checks)
       IN  /\ screen' = out.st.screen
           /\ parser' = out.st.parser
           /\ host' = [host EXCEPT !.panicked = out.panicked]
    /\ fed' = Append(fed, chunk)
    /\ UNCHANGED <<agent, notified>>

\* terminal_resize for the running task: the master is resized, which may
\* fail and end the call, then the record's screen.
terminal_resize(rows, cols) ==
    /\ \E resized \in BOOLEAN :
          IF resized
          THEN /\ screen' = resize(screen, rows, cols)
               /\ host' = [host EXCEPT !.size = Some(<<rows, cols>>)]
          ELSE UNCHANGED <<screen, host>>
    /\ UNCHANGED <<parser, fed, agent, notified>>

\* A fresh screen in a build of either kind.
ResizeInit ==
    /\ RegistryInit
    /\ reqs = [c \in Callers |-> NoRequest]
    /\ meta = <<>>
    /\ repo = EmptyRepo
    /\ bus = <<>>
    /\ replies = [c \in Callers |-> NoReply]
    /\ TermInit
    /\ shells = NoShells
    /\ lookup = NoLookup
    /\ launch = NoLaunch
    /\ threads = NoThreads
    /\ \E checks \in BOOLEAN : host = [NoHost EXCEPT !.overflow_checks = checks]

ResizeNext ==
    /\ \/ \E chunk \in ResizeChunks : ReaderFeeds(chunk)
       \/ \E rows \in ResizeRows, cols \in ResizeCols : terminal_resize(rows, cols)
    /\ UNCHANGED <<shells, lookup, launch, threads>>
    /\ UNCHANGED registryVars
    /\ UNCHANGED vcsVars

ResizeSpec == ResizeInit /\ [][ResizeNext]_vars

\* ===================================================== the agent driver
\* CodexAgent and CopilotAgent: the reader thread feeds each chunk to the
\* driver's screen and derives a status from it, the idle thread polls
\* status_if_idle; each passes the status it got to on_status after the state
\* lock has been released.

\* APPROVAL_PROMPT, two characters long here; the screen text is searched
\* for it after to_ascii_lowercase.
APPROVAL_PROMPT == <<"y", "n">>

AgentKinds == {"codex", "copilot"}

\* What the agent's child writes.
AgentChunks ==
    { <<"Y", "n">>, <<"n", "CR", "y">>, <<"ESC", "[", "2", "J">>, <<"a">>,
      <<"r">>, <<"s">> }

\* "resume a previous session" and "no sessions yet", one character each here.
RESUME_PROMPT == <<"r">>
NO_SESSIONS == <<"s">>

to_ascii_lowercase(text) ==
    [i \in DOMAIN text |-> IF text[i] = "Y" THEN "y" ELSE text[i]]

\* str::contains
Contains(text, word) ==
    \E i \in 0..(Len(text) - Len(word)) : SubSeq(text, i + 1, i + Len(word)) = word

OutputStatusCaseSensitive(kind, s) ==
    IF kind = "codex" /\ Contains(full_text(s), APPROVAL_PROMPT)
    THEN "AwaitingApproval"
    ELSE "Working"

\* The status status_from_output derives from the screen: the Codex driver
\* looks for the approval prompt, the Copilot driver always finds Working.
OutputStatus(kind, s) ==
    IF kind = "codex" /\ Contains(to_ascii_lowercase(full_text(s)), APPROVAL_PROMPT)
    THEN "AwaitingApproval"
    ELSE "Working"

\* status_from_output, called by the reader thread with the chunk it read;
\* the status it returns is passed to on_status in the reader's next step.
status_from_output(chunk) ==
    /\ agent.reader = None
    /\ agent.startup = None
    /\ Len(fed) < MaxFeeds
    /\ LET st == FeedChunk([screen |-> screen, parser |-> parser], chunk)
           status == OutputStatus(agent.kind, st.screen)
           status_changed == agent.last_status # Some(status)
           screen_text == to_ascii_lowercase(full_text(st.screen))
       IN  /\ screen' = st.screen
           /\ parser' = st.parser
           /\ agent' = [agent EXCEPT
                           !.last_output = Some(clock),
                           !.last_status = IF status_changed THEN Some(status) ELSE @,
                           !.reader = IF status_changed THEN Some(status) ELSE None,
                           !.startup =
                               IF agent.kind = "codex"
                               THEN Some([resume_prompt |-> Contains(screen_text, RESUME_PROMPT),
                                          no_sessions |-> Contains(screen_text, NO_SESSIONS)])
                               ELSE None]
    /\ fed' = Append(fed, chunk)
    /\ UNCHANGED <<notified, clock>>

\* handle_startup_sequence, called by status_from_output once it has released
\* the state lock: under the lock it sets a latch; after that it sends Enter
\* if the writer's try_lock succeeds, or spawns the re-check thread.
handle_startup_sequence ==
    /\ agent.startup # None
    /\ LET f == agent.startup[1]
           send_enter ==
               /\ f.resume_prompt
               /\ ~f.no_sessions
               /\ ~agent.sent_resume_enter
               /\ ~agent.sent_no_sessions_escape
           schedule_no_sessions_check ==
               /\ ~send_enter
               /\ f.resume_prompt
               /\ f.no_sessions
               /\ ~agent.sent_no_sessions_escape
               /\ ~agent.pending_no_sessions_check
       IN  agent' = [agent EXCEPT
                        !.startup = None,
                        !.sent_resume_enter = @ \/ send_enter,
                        !.pending_no_sessions_check = @ \/ schedule_no_sessions_check,
                        !.written = IF send_enter /\ ~agent.typing
                                    THEN Append(@, "CR") ELSE @,
                        !.recheck = IF schedule_no_sessions_check THEN Some(clock) ELSE @]
    /\ UNCHANGED <<screen, parser, fed, notified, clock>>

\* The thread handle_startup_sequence spawned, after its sleep of 1 s: if
\* "no sessions yet" is still on the screen it sets both latches and sends
\* ESC if the writer's try_lock succeeds; it clears the pending flag.
NoSessionsCheck ==
    /\ agent.recheck # None
    /\ clock - agent.recheck[1] >= 1
    /\ LET still == Contains(to_ascii_lowercase(full_text(screen)), NO_SESSIONS)
       IN  agent' = [agent EXCEPT
                        !.recheck = None,
                        !.pending_no_sessions_check = FALSE,
                        !.sent_no_sessions_escape = @ \/ still,
                        !.sent_resume_enter = @ \/ still,
                        !.written = IF still /\ ~agent.typing
                                    THEN Append(@, "ESC") ELSE @]
    /\ UNCHANGED <<screen, parser, fed, notified, clock>>

\* terminal_write takes the lock of the writer for the bytes the user typed,
\* and releases it.
TerminalWriteLock ==
    /\ ~agent.typing
    /\ agent' = [agent EXCEPT !.typing = TRUE]
    /\ UNCHANGED <<screen, parser, fed, notified, clock>>

TerminalWriteUnlock ==
    /\ agent.typing
    /\ agent' = [agent EXCEPT !.typing = FALSE]
    /\ UNCHANGED <<screen, parser, fed, notified, clock>>

\* (output_callbacks.on_status)(status)
ReaderNotify ==
    /\ agent.reader # None
    /\ agent.startup = None
    /\ notified' = Append(notified, agent.reader[1])
    /\ agent' = [agent EXCEPT !.reader = None]
    /\ UNCHANGED <<screen, parser, fed, clock>>

\* state.last_status == Some(TaskStatus::Working)
IdleFromAny(last_status) == last_status # None
IdleFrom(last_status) == last_status = Some("Working")

\* status_if_idle, called by the idle thread every 250 ms: Working turns
\* into Idle once the last output is 1000 ms old.
status_if_idle ==
    /\ agent.idle = None
    /\ agent.last_output # None
    /\ clock - agent.last_output[1] >= 1
    /\ IdleFrom(agent.last_status)
    /\ agent' = [agent EXCEPT !.last_status = Some("Idle"), !.idle = Some("Idle")]
    /\ UNCHANGED <<screen, parser, fed, notified, clock>>

\* (idle_callbacks.on_status)(status)
IdleNotify ==
    /\ agent.idle # None
    /\ notified' = Append(notified, agent.idle[1])
    /\ agent' = [agent EXCEPT !.idle = None]
    /\ UNCHANGED <<screen, parser, fed, clock>>

AgentTick ==
    /\ clock < MaxTime
    /\ clock' = clock + 1
    /\ UNCHANGED termVars

\* A driver of either kind after start: nothing read, nothing reported.
AgentInit ==
    /\ RegistryInit
    /\ AuxInit
    /\ reqs = [c \in Callers |-> NoRequest]
    /\ meta = <<>>
    /\ repo = EmptyRepo
    /\ bus = <<>>
    /\ replies = [c \in Callers |-> NoReply]
    /\ screen = Screen_new(2, 3)
    /\ parser = Parser_new
    /\ fed = <<>>
    /\ \E kind \in AgentKinds : agent = NewAgent(kind)
    /\ notified = <<>>

AgentNext ==
    /\ \/ \E chunk \in AgentChunks : status_from_output(chunk)
       \/ handle_startup_sequence
       \/ NoSessionsCheck
       \/ TerminalWriteLock
       \/ TerminalWriteUnlock
       \/ ReaderNotify
       \/ status_if_idle
       \/ IdleNotify
       \/ AgentTick
    /\ UNCHANGED <<tasks, nextId, sessions, timers, callers, events, stopped>>
    /\ UNCHANGED vcsVars
    /\ UNCHANGED auxVars

AgentSpec == AgentInit /\ [][AgentNext]_vars

\* ================================================== the driver restarted
\* One CodexAgent serves the sessions of a task one after the other: reset
\* clears the state it shares with its threads, start installs the writer of
\* the next session. A re-check thread spawned in a session that has ended
\* still holds the driver and the writer it was given.

MaxRestarts == 1

\* The first session runs; no thread is left over from an earlier one.
FirstSession == [epoch |-> 0, started |-> TRUE, stale |-> None, old_written |-> <<>>]

\* CodexAgent::reset, after the reader of the session has read to the end:
\* a fresh screen and parser, the latches and the pending flag cleared, no
\* writer. The re-check thread of the session, if one sleeps, lives on.
reset ==
    /\ threads.started
    /\ threads.epoch < MaxRestarts
    /\ agent.reader = None
    /\ agent.startup = None
    /\ screen' = Screen_new(screen.rows, screen.cols)
    /\ parser' = Parser_new
    /\ agent' = [agent EXCEPT
                    !.last_output = None,
                    !.last_status = None,
                    !.sent_resume_enter = FALSE,
                    !.sent_no_sessions_escape = FALSE,
                    !.pending_no_sessions_check = FALSE,
                    !.recheck = None,
                    !.typing = FALSE,
                    !.written = <<>>]
    /\ threads' = [threads EXCEPT
                      !.started = FALSE,
                      !.epoch = @ + 1,
                      !.stale = agent.recheck,
                      !.old_written = agent.written]
    /\ UNCHANGED <<fed, notified, clock>>

\* CodexAgent::start, under the state lock: state.writer = Some(writer) and
\* state.sent_resume_enter = false.
start ==
    /\ ~threads.started
    /\ agent' = [agent EXCEPT !.sent_resume_enter = FALSE]
    /\ threads' = [threads EXCEPT !.started = TRUE]
    /\ UNCHANGED <<screen, parser, fed, notified, clock>>

\* The re-check thread of the ended session wakes up: it locks the state of
\* the driver, which is the state of the session running now, and writes to
\* the writer it was spawned with.
StaleNoSessionsCheck ==
    /\ threads.stale # None
    /\ clock - threads.stale[1] >= 1
    /\ \E locked \in BOOLEAN :
          LET still == Contains(to_ascii_lowercase(full_text(screen)), NO_SESSIONS)
          IN  /\ agent' = [agent EXCEPT
                              !.pending_no_sessions_check = FALSE,
                              !.sent_no_sessions_escape = @ \/ still,
                              !.sent_resume_enter = @ \/ still]
              /\ threads' = [threads EXCEPT
                                !.stale = None,
                                !.old_written = IF still /\ locked
                                                THEN Append(@, "ESC") ELSE @]
    /\ UNCHANGED <<screen, parser, fed, notified, clock>>

RestartInit ==
    /\ RegistryInit
    /\ reqs = [c \in Callers |-> NoRequest]
    /\ meta = <<>>
    /\ repo = EmptyRepo
    /\ bus = <<>>
    /\ replies = [c \in Callers |-> NoReply]
    /\ screen = Screen_new(2, 3)
    /\ parser = Parser_new
    /\ fed = <<>>
    /\ agent = NewAgent("codex")
    /\ notified = <<>>
    /\ shells = NoShells
    /\ lookup = NoLookup
    /\ launch = NoLaunch
    /\ host = NoHost
    /\ threads = FirstSession

RestartNext ==
    /\ \/ /\ threads.started
          /\ \E chunk \in AgentChunks : status_from_output(chunk)
          /\ UNCHANGED threads
       \/ handle_startup_sequence /\ UNCHANGED threads
       \/ NoSessionsCheck /\ UNCHANGED threads
       \/ ReaderNotify /\ UNCHANGED threads
       \/ AgentTick /\ UNCHANGED threads
       \/ reset
       \/ start
       \/ StaleNoSessionsCheck
    /\ UNCHANGED <<tasks, nextId, sessions, timers, callers, events, stopped>>
    /\ UNCHANGED vcsVars
    /\ UNCHANGED <<shells, lookup, launch, host>>

RestartSpec == RestartInit /\ [][RestartNext]_vars

\* ============================================ the threads of one session
\* CodexAgent::start spawns an idle thread, a reader thread and an exit
\* thread; the idle thread and the exit thread share the flag `running`.

\* The child runs, the flag is set, both threads are at the head of their
\* loops, on_exit has not been called.
SessionThreads ==
    [child |-> "alive", running |-> TRUE, idle |-> "test", exit |-> "poll",
     on_exit |-> None, late |-> 0]

\* The child of the session terminates.
ChildExits ==
    /\ threads.child = "alive"
    /\ threads' = [threads EXCEPT !.child = "exited"]
    /\ UNCHANGED termVars
    /\ UNCHANGED clock

\* What try_wait can answer under the lock of the child.
TryWait == {"exited", "none", "err"}

\* The exit thread locks the child and polls it: Ok(Some(status)) and Err
\* leave the loop, Ok(None) sleeps 200 ms and polls again.
ExitPoll ==
    /\ threads.exit = "poll"
    /\ \E answer \in TryWait :
          /\ answer = "exited" => threads.child = "exited"
          /\ answer = "none" => threads.child = "alive"
          /\ threads' = [threads EXCEPT !.exit = IF answer = "none" THEN "poll" ELSE "store"]
    /\ UNCHANGED termVars
    /\ UNCHANGED clock

\* exit_running.store(false, Ordering::Relaxed)
ExitStoresNothing(running) == running
ExitStores(running) == FALSE

ExitStore ==
    /\ threads.exit = "store"
    /\ threads' = [threads EXCEPT !.exit = "notify", !.running = ExitStores(@)]
    /\ UNCHANGED termVars
    /\ UNCHANGED clock

\* (exit_callbacks.on_exit)(exit_code); the model notes the value the flag
\* has when the handler is entered.
ExitNotify ==
    /\ threads.exit = "notify"
    /\ threads' = [threads EXCEPT !.exit = "done", !.on_exit = Some(threads.running)]
    /\ UNCHANGED termVars
    /\ UNCHANGED clock

\* while idle_running.load(Ordering::Relaxed)
IdleLoad ==
    /\ threads.idle = "test"
    /\ threads' = [threads EXCEPT !.idle = IF threads.running THEN "sleep" ELSE "done"]
    /\ UNCHANGED termVars
    /\ UNCHANGED clock

\* status_if_idle returns Some(Idle).
IdleDue ==
    /\ agent.last_output # None
    /\ clock - agent.last_output[1] >= 1
    /\ IdleFrom(agent.last_status)

\* The idle thread wakes from its sleep of 250 ms and calls status_if_idle;
\* `late` counts the wake-ups after the flag was cleared.
IdleWake ==
    /\ threads.idle = "sleep"
    /\ IF IdleDue
       THEN /\ status_if_idle
            /\ threads' = [threads EXCEPT
                              !.idle = "notify",
                              !.late = IF threads.running THEN @ ELSE @ + 1]
       ELSE /\ threads' = [threads EXCEPT
                              !.idle = "test",
                              !.late = IF threads.running THEN @ ELSE @ + 1]
            /\ UNCHANGED termVars
            /\ UNCHANGED clock

\* The idle thread passes the status to on_status and loops.
IdleCallback ==
    /\ threads.idle = "notify"
    /\ IdleNotify
    /\ threads' = [threads EXCEPT !.idle = "test"]

ExitInit ==
    /\ RegistryInit
    /\ reqs = [c \in Callers |-> NoRequest]
    /\ meta = <<>>
    /\ repo = EmptyRepo
    /\ bus = <<>>
    /\ replies = [c \in Callers |-> NoReply]
    /\ screen = Screen_new(2, 3)
    /\ parser = Parser_new
    /\ fed = <<>>
    /\ agent = NewAgent("codex")
    /\ notified = <<>>
    /\ shells = NoShells
    /\ lookup = NoLookup
    /\ launch = NoLaunch
    /\ host = NoHost
    /\ threads = SessionThreads

ExitThread == ExitPoll \/ ExitStore \/ ExitNotify

IdleThread == IdleLoad \/ IdleWake \/ IdleCallback

ReaderThread ==
    /\ \/ \E chunk \in AgentChunks : status_from_output(chunk)
       \/ handle_startup_sequence
       \/ NoSessionsCheck
       \/ ReaderNotify
       \/ AgentTick
    /\ UNCHANGED threads

\* The threads of the driver touch nothing of the registry.
ExitFrame ==
    /\ UNCHANGED <<tasks, nextId, sessions, timers, callers, events, stopped>>
    /\ UNCHANGED vcsVars
    /\ UNCHANGED <<shells, lookup, launch, host>>

ExitNext ==
    \/ ChildExits /\ ExitFrame
    \/ ExitThread /\ ExitFrame
    \/ IdleThread /\ ExitFrame
    \/ ReaderThread /\ ExitFrame

ExitSpec == ExitInit /\ [][ExitNext]_vars

\* Each thread the scheduler runs gets its turn.
ExitFairSpec ==
    ExitSpec /\ WF_vars(ExitThread /\ ExitFrame) /\ WF_vars(IdleThread /\ ExitFrame)

\* ==================================================== the lock discipline
\* The locks of the runtime: the RwLock of the registry, the mutex of the
\* driver's state, and the mutexes of a session's writer, child and master.
\* Each handler and each thread is the list of its lock operations, in the
\* order of the code; a guard is released where its scope ends, and every
\* guard a function still holds is released when it returns.

MaxThreads == 3

Locks == {"registry", "state", "writer", "child", "master"}

Step(kind, lock, to, label) == [op |-> kind, lock |-> lock, to |-> to, label |-> label]

\* TaskManager::terminal_write
terminal_write_steps ==
    << Step("read", "registry", "", ""),
       Step("branch", "", "return", ""),
       Step("unlock", "registry", "", ""),
       Step("lock", "writer", "", ""),
       Step("io", "pty_write", "", ""),
       Step("return", "", "", "return") >>

\* TaskManager::terminal_resize
terminal_resize_steps ==
    << Step("read", "registry", "", ""),
       Step("branch", "", "return", ""),
       Step("unlock", "registry", "", ""),
       Step("lock", "master", "", ""),
       Step("do", "resize", "", ""),
       Step("unlock", "master", "", ""),
       Step("branch", "", "return", ""),
       Step("write", "registry", "", ""),
       Step("unlock", "registry", "", ""),
       Step("return", "", "", "return") >>

\* TaskManager::stop_task
stop_task_steps ==
    << Step("read", "registry", "", ""),
       Step("branch", "", "return", ""),
       Step("unlock", "registry", "", ""),
       Step("try", "child", "mark", ""),
       Step("do", "kill", "", ""),
       Step("unlock", "child", "", ""),
       Step("write", "registry", "", "mark"),
       Step("branch", "", "return", ""),
       Step("do", "emit", "", ""),
       Step("return", "", "", "return") >>

\* TaskManager::discard_task, with the stop_task it calls for a running task
discard_task_steps ==
    << Step("read", "registry", "", ""),
       Step("branch", "", "return", ""),
       Step("unlock", "registry", "", ""),
       Step("branch", "", "remove", ""),
       Step("read", "registry", "", ""),
       Step("branch", "", "stopped", ""),
       Step("unlock", "registry", "", ""),
       Step("try", "child", "mark", ""),
       Step("do", "kill", "", ""),
       Step("unlock", "child", "", ""),
       Step("write", "registry", "", "mark"),
       Step("do", "emit", "", ""),
       Step("unlock", "registry", "", "stopped"),
       Step("io", "git", "", "remove"),
       Step("io", "git", "", ""),
       Step("write", "registry", "", ""),
       Step("do", "emit", "", ""),
       Step("unlock", "registry", "", ""),
       Step("write", "registry", "", ""),
       Step("return", "", "", "return") >>

\* TaskManager::start_task
start_task_steps ==
    << Step("read", "registry", "", ""),
       Step("branch", "", "return", ""),
       Step("unlock", "registry", "", ""),
       Step("read", "registry", "", ""),
       Step("branch", "", "return", ""),
       Step("unlock", "registry", "", ""),
       Step("io", "spawn", "", ""),
       Step("branch", "", "return", ""),
       Step("write", "registry", "", ""),
       Step("branch", "", "return", ""),
       Step("do", "emit", "", ""),
       Step("unlock", "registry", "", ""),
       Step("do", "spawn_threads", "", ""),
       Step("read", "registry", "", ""),
       Step("return", "", "", "return") >>

\* stream_terminal_output, for one chunk
stream_terminal_output_steps ==
    << Step("io", "pty_read", "", ""),
       Step("write", "registry", "", ""),
       Step("unlock", "registry", "", ""),
       Step("read", "registry", "", ""),
       Step("unlock", "registry", "", ""),
       Step("branch", "", "approval", ""),
       Step("write", "registry", "", ""),
       Step("unlock", "registry", "", ""),
       Step("write", "registry", "", ""),
       Step("unlock", "registry", "", ""),
       Step("branch", "", "output", ""),
       Step("write", "registry", "", "approval"),
       Step("unlock", "registry", "", ""),
       Step("do", "emit", "", "output"),
       Step("return", "", "", "return") >>

\* mark_idle_if_quiet, in the thread the reader spawned
mark_idle_if_quiet_steps ==
    << Step("write", "registry", "", ""),
       Step("do", "emit", "", ""),
       Step("return", "", "", "return") >>

\* wait_for_exit, and the finish_task it calls
wait_for_exit_steps ==
    << Step("lock", "child", "", "poll"),
       Step("do", "try_wait", "", ""),
       Step("unlock", "child", "", ""),
       Step("branch", "", "poll", ""),
       Step("write", "registry", "", ""),
       Step("do", "emit", "", ""),
       Step("unlock", "registry", "", ""),
       Step("do", "emit", "", ""),
       Step("return", "", "", "return") >>

\* CodexAgent::status_from_output, and the handle_startup_sequence it calls
status_from_output_steps ==
    << Step("lock", "state", "", ""),
       Step("unlock", "state", "", ""),
       Step("lock", "state", "", ""),
       Step("unlock", "state", "", ""),
       Step("branch", "", "return", ""),
       Step("try", "writer", "return", ""),
       Step("io", "pty_write", "", ""),
       Step("unlock", "writer", "", ""),
       Step("return", "", "", "return") >>

\* The re-check thread spawned by handle_startup_sequence
no_sessions_check_steps ==
    << Step("lock", "state", "", ""),
       Step("branch", "", "return", ""),
       Step("try", "writer", "return", ""),
       Step("io", "pty_write", "", ""),
       Step("unlock", "writer", "", ""),
       Step("return", "", "", "return") >>

\* CodexAgent::status_if_idle
status_if_idle_steps ==
    << Step("lock", "state", "", ""),
       Step("return", "", "", "return") >>

\* The exit thread of CodexAgent::start
exit_thread_steps ==
    << Step("lock", "child", "", "poll"),
       Step("do", "try_wait", "", ""),
       Step("unlock", "child", "", ""),
       Step("branch", "", "poll", ""),
       Step("do", "store", "", ""),
       Step("return", "", "", "return") >>

LockThreads ==
    {"terminal_write", "terminal_resize", "stop_task", "discard_task",
     "start_task", "stream_terminal_output", "mark_idle_if_quiet",
     "wait_for_exit", "status_from_output", "no_sessions_check",
     "status_if_idle", "exit_thread"}

Program(t) ==
    CASE t = "terminal_write" -> terminal_write_steps
      [] t = "terminal_resize" -> terminal_resize_steps
      [] t = "stop_task" -> stop_task_steps
      [] t = "discard_task" -> discard_task_steps
      [] t = "start_task" -> start_task_steps
      [] t = "stream_terminal_output" -> stream_terminal_output_steps
      [] t = "mark_idle_if_quiet" -> mark_idle_if_quiet_steps
      [] t = "wait_for_exit" -> wait_for_exit_steps
      [] t = "status_from_output" -> status_from_output_steps
      [] t = "no_sessions_check" -> no_sessions_check_steps
      [] t = "status_if_idle" -> status_if_idle_steps
      [] t = "exit_thread" -> exit_thread_steps

\* The step the thread is at; a thread that has returned is at no step.
Returned(t) == threads.pc[t] > Len(Program(t))

Current(t) == Program(t)[threads.pc[t]]

At(t, label) == CHOOSE i \in DOMAIN Program(t) : Program(t)[i].label = label

\* The threads whose guards keep t from taking the lock in the mode: a
\* reader waits for a writer, a writer and a mutex wait for every holder.
Holders(lock, mode) ==
    { u \in threads.run :
         \E h \in threads.held[u] :
            /\ h[1] = lock
            /\ mode = "read" => h[2] = "write" }

\* The end of a guard's scope releases the lock.
KeepsUntilReturn(held, lock) == held
Drops(held, lock) == { h \in held : h[1] # lock }

Moved(t, pc, held) ==
    threads' = [threads EXCEPT !.pc[t] = pc, !.held[t] = held]

\* read(), write() and lock() wait until the lock can be taken.
Acquire(t) ==
    /\ Current(t).op \in {"read", "write", "lock"}
    /\ Holders(Current(t).lock, Current(t).op) = {}
    /\ Moved(t, threads.pc[t] + 1,
             threads.held[t] \cup {<<Current(t).lock, Current(t).op>>})

\* try_lock() takes the lock if it is free and goes on without it if not.
TryLock(t) ==
    /\ Current(t).op = "try"
    /\ IF Holders(Current(t).lock, "lock") = {}
       THEN Moved(t, threads.pc[t] + 1, threads.held[t] \cup {<<Current(t).lock, "lock">>})
       ELSE Moved(t, At(t, Current(t).to), threads.held[t])

Release(t) ==
    /\ Current(t).op = "unlock"
    /\ Moved(t, threads.pc[t] + 1, Drops(threads.held[t], Current(t).lock))

\* A PTY read or write, a git subprocess, the spawn of the child.
BlockingIo(t) ==
    /\ Current(t).op = "io"
    /\ Moved(t, threads.pc[t] + 1, threads.held[t])

\* A call that does not block, and a test of what was read.
Plain(t) ==
    \/ /\ Current(t).op = "do"
       /\ Moved(t, threads.pc[t] + 1, threads.held[t])
    \/ /\ Current(t).op = "branch"
       /\ \E pc \in {threads.pc[t] + 1, At(t, Current(t).to)} :
             Moved(t, pc, threads.held[t])

ReturnStep(t) ==
    /\ Current(t).op = "return"
    /\ Moved(t, threads.pc[t] + 1, {})

LockInit ==
    /\ RegistryInit
    /\ reqs = [c \in Callers |-> NoRequest]
    /\ meta = <<>>
    /\ repo = EmptyRepo
    /\ bus = <<>>
    /\ replies = [c \in Callers |-> NoReply]
    /\ TermInit
    /\ shells = NoShells
    /\ lookup = NoLookup
    /\ launch = NoLaunch
    /\ host = NoHost
    /\ \E run \in SUBSET LockThreads :
          /\ Cardinality(run) \in 1..MaxThreads
          /\ threads = [run |-> run,
                        pc |-> [t \in LockThreads |-> 1],
                        held |-> [t \in LockThreads |-> {}]]

LockNext ==
    /\ \E t \in threads.run :
          /\ ~Returned(t)
          /\ \/ Acquire(t)
             \/ TryLock(t)
             \/ Release(t)
             \/ BlockingIo(t)
             \/ Plain(t)
             \/ ReturnStep(t)
    /\ UNCHANGED registryVars
    /\ UNCHANGED vcsVars
    /\ UNCHANGED termVars
    /\ UNCHANGED <<shells, lookup, launch, host>>

LockSpec == LockInit /\ [][LockNext]_vars

\* ==================================================== the worktree shell
\* A second PTY session per task, running the user's shell in the working
\* copy. task_terminal_start picks the session by TerminalKind; the command
\* start_worktree_terminal goes to the manager directly.
MaxCalls == 3

\* The tasks a terminal request can name; the registry holds the first ones.
ShellTaskIds == {1, 2}
TerminalKind == {"Agent", "Worktree"}

\* The task has a shell-runtime handle.
HasShell(t) == t \in shells.open

\* TaskManager::start_worktree_terminal: an unknown task id is "task not
\* found"; a task that has a shell already gets Ok; otherwise the shell is
\* spawned in the working copy and its handle kept. The result is
\* <<ret, open, spawned>>.
start_worktree_terminal(t) ==
    IF t \notin Registered THEN <<"NotFound", shells.open, shells.spawned>>
    ELSE IF HasShell(t) THEN <<"Ok", shells.open, shells.spawned>>
    ELSE <<"Ok", shells.open \cup {t}, Append(shells.spawned, t)>>

Answered(command, t, kind, r) ==
    shells' = [open |-> r[2], spawned |-> r[3],
               calls |-> Append(shells.calls,
                                [command |-> command, task_id |-> t,
                                 kind |-> kind, ret |-> r[1]])]

\* match req.kind: the kinds that go to the manager.
StartsShellOfAnyKind(kind) == TRUE
StartsShell(kind) == kind = "Worktree"

\* The command task_terminal_start.
task_terminal_start(t, kind) ==
    /\ Len(shells.calls) < MaxCalls
    /\ Answered("task_terminal_start", t, kind,
                IF StartsShell(kind)
                THEN start_worktree_terminal(t)
                ELSE <<"Ok", shells.open, shells.spawned>>)

\* The command start_worktree_terminal.
start_worktree_terminal_command(t) ==
    /\ Len(shells.calls) < MaxCalls
    /\ Answered("start_worktree_terminal", t, "Worktree", start_worktree_terminal(t))

\* The registry after no, one or two create_task calls.
ShellInit ==
    /\ tasks \in { <<>>, <<NewRecord>>, <<NewRecord, NewRecord>> }
    /\ nextId = Len(tasks)
    /\ clock = 0
    /\ sessions = [s \in SessionIds |-> FreeSession]
    /\ timers = {}
    /\ callers = [c \in Callers |-> IdleCaller]
    /\ events = [s \in SessionIds |-> NewEvents]
    /\ stopped = {}
    /\ reqs = [c \in Callers |-> NoRequest]
    /\ meta = <<>>
    /\ repo = EmptyRepo
    /\ bus = <<>>
    /\ replies = [c \in Callers |-> NoReply]
    /\ TermInit
    /\ AuxInit

ShellNext ==
    /\ \/ \E t \in ShellTaskIds, kind \in TerminalKind : task_terminal_start(t, kind)
       \/ \E t \in ShellTaskIds : start_worktree_terminal_command(t)
    /\ UNCHANGED <<lookup, launch, host, threads>>
    /\ UNCHANGED registryVars
    /\ UNCHANGED vcsVars
    /\ UNCHANGED termVars

ShellSpec == ShellInit /\ [][ShellNext]_vars

\* ============================================ Copilot session discovery
\* find_latest_session_id reads ~/.copilot/session-state and, if that gives
\* no session, ~/.copilot/history-session-state. A directory is None when
\* read_dir fails, otherwise the regular files of the listing in the order
\* read_dir yields them; a file is the latest timestamp of its lines and
\* whether its text contains the working copy's path.
MaxFiles == 3
MaxLegacyFiles == 2

\* latest_timestamp of a session file: no line has one, or the greatest.
Stamps == {None, Some(1), Some(2)}
SessionFiles == [timestamp : Stamps, cwd : BOOLEAN]

\* The listings of at most n files.
Listings(n) == UNION { [1..k -> SessionFiles] : k \in 0..n }

Dirs(n) == {None} \cup { Some(l) : l \in Listings(n) }

\* parse_session_file: None unless the file mentions desired_cwd; the
\* session id (sessionId of session.start, else the file stem) names the file.
parse_session_file(dir, i, file) ==
    IF file.cwd
    THEN Some([session_id |-> <<dir, i>>, timestamp |-> file.timestamp])
    ELSE None

\* let replace = match (&candidate.timestamp, &best) { ... }
ReplaceAlways(candidate, best) == TRUE
Replace(candidate, best) ==
    IF candidate.timestamp # None
    THEN IF best # None
         THEN IF best[1].timestamp # None
              THEN candidate.timestamp[1] > best[1].timestamp[1]
              ELSE TRUE
         ELSE TRUE
    ELSE best = None

RECURSIVE ScanFrom(_, _, _, _)
ScanFrom(dir, files, i, best) ==
    IF i > Len(files) THEN best
    ELSE LET candidate == parse_session_file(dir, i, files[i]) IN
         ScanFrom(dir, files, i + 1,
                  IF candidate # None /\ Replace(candidate[1], best)
                  THEN candidate ELSE best)

find_latest_session_in_dir(dir, listing) ==
    IF listing = None THEN None
    ELSE LET best == ScanFrom(dir, listing[1], 1, None) IN
         IF best = None THEN None ELSE Some(best[1].session_id)

find_latest_session_id(primary, legacy) ==
    LET first == find_latest_session_in_dir("primary", primary) IN
    lookup' = IF first # None
              THEN [primary |-> primary, legacy |-> legacy,
                    scanned |-> <<"primary">>, result |-> first]
              ELSE [primary |-> primary, legacy |-> legacy,
                    scanned |-> <<"primary", "legacy">>,
                    result |-> find_latest_session_in_dir("legacy", legacy)]

SessionInit ==
    /\ RegistryInit
    /\ reqs = [c \in Callers |-> NoRequest]
    /\ meta = <<>>
    /\ repo = EmptyRepo
    /\ bus = <<>>
    /\ replies = [c \in Callers |-> NoReply]
    /\ TermInit
    /\ AuxInit

\* Agent::start looks the session up once, before it spawns copilot.
SessionNext ==
    /\ lookup = NoLookup
    /\ \E primary \in Dirs(MaxFiles), legacy \in Dirs(MaxLegacyFiles) :
          find_latest_session_id(primary, legacy)
    /\ UNCHANGED <<shells, launch, host, threads>>
    /\ UNCHANGED registryVars
    /\ UNCHANGED vcsVars
    /\ UNCHANGED termVars

SessionSpec == SessionInit /\ [][SessionNext]_vars

\* ========================================================= the launchers
\* spawn_vscode and spawn_terminal go through a list of programs. What the
\* spawn of each program would give is the machine's, fixed before the call:
\* launch.outcomes has one entry per program of the list.
Builds == {"unix", "windows"}

vscode_candidates(build) ==
    IF build = "windows" THEN <<"code.cmd", "code.exe", "code">> ELSE <<"code">>

terminal_attempts(build) ==
    IF build = "windows"
    THEN <<"wt", "alacritty", "alacritty.exe", "cmd start cmd", "cmd start powershell">>
    ELSE <<"x-terminal-emulator", "gnome-terminal", "konsole", "xfce4-terminal",
           "kitty", "alacritty", "terminator", "tilix">>

\* Command::spawn: the child runs, or io::ErrorKind::NotFound, or another
\* error kind.
SpawnResults == {"Ok", "NotFound", "PermissionDenied"}

\* if err.kind() == NotFound { continue } else { return Err(err.into()) }
ContinuesOnAnyError(outcome) == outcome # "Ok"
Continues(outcome) == outcome = "NotFound"

\* The loop over the candidates from the i-th on: how many were spawned and
\* what is returned, Ok, the error kind of TaskError::Io, or "Message".
RECURSIVE Attempt(_, _)
Attempt(outcomes, i) ==
    IF i > Len(outcomes) THEN [tried |-> Len(outcomes), result |-> "Message"]
    ELSE IF outcomes[i] = "Ok" THEN [tried |-> i, result |-> "Ok"]
    ELSE IF Continues(outcomes[i]) THEN Attempt(outcomes, i + 1)
    ELSE [tried |-> i, result |-> outcomes[i]]

Launched(opener) ==
    /\ launch.opener = opener
    /\ launch.result = "none"
    /\ launch' = [launch EXCEPT !.tried = Attempt(launch.outcomes, 1).tried,
                                !.result = Attempt(launch.outcomes, 1).result]

spawn_vscode == Launched("vscode")
spawn_terminal == Launched("terminal")

\* A call of one launcher in one build, on a machine where each program of
\* its list is there, missing, or fails to start.
LauncherInit ==
    /\ RegistryInit
    /\ reqs = [c \in Callers |-> NoRequest]
    /\ meta = <<>>
    /\ repo = EmptyRepo
    /\ bus = <<>>
    /\ replies = [c \in Callers |-> NoReply]
    /\ TermInit
    /\ shells = NoShells
    /\ lookup = NoLookup
    /\ host = NoHost
    /\ threads = NoThreads
    /\ \E build \in Builds, opener \in {"vscode", "terminal"} :
          LET candidates == IF opener = "vscode" THEN vscode_candidates(build)
                            ELSE terminal_attempts(build) IN
          \E outcomes \in [DOMAIN candidates -> SpawnResults] :
             launch = [opener |-> opener, candidates |-> candidates,
                       outcomes |-> outcomes, tried |-> 0, result |-> "none"]

LauncherNext ==
    /\ \/ spawn_vscode
       \/ spawn_terminal
    /\ UNCHANGED <<shells, lookup, host, threads>>
    /\ UNCHANGED registryVars
    /\ UNCHANGED vcsVars
    /\ UNCHANGED termVars

LauncherSpec == LauncherInit /\ [][LauncherNext]_vars

\* ===================================================================== claims
\* The step of the exit waiter of session s that runs finish_task.
ExitHandlerRuns(s) ==
    /\ sessions[s].waiter = "finish"
    /\ sessions'[s].waiter # "finish"

\* The exit handler of s runs and finds its task in the registry.
ExitHandlerRunsFor(s, t) ==
    /\ ExitHandlerRuns(s)
    /\ t = sessions[s].task
    /\ t \in Registered
    /\ t \in DOMAIN tasks'

\* C1: in every reachable state each registered task has a status in {Idle,
\* Working, AwaitingApproval} if and only if its runtime handle is installed.
C1_ActiveIffRuntime ==
    \A t \in Registered :
        (tasks[t].status \in ActiveStatus) <=> (tasks[t].runtime # None)

\* C2: after stop_task(T) has returned Ok, the next run of the exit handler
\* for T leaves the status Stopped, never Completed or Failed, whatever the
\* exit code and whatever chunks and quiet checks came in between.  Ready,
\* which is what this stop_task writes, is admitted along with Stopped.
C2_StopSurvivesExit ==
    [][\A s \in SessionIds : \A t \in stopped :
          ExitHandlerRunsFor(s, t) => tasks'[t].status \in {"Stopped", "Ready"}]_vars

\* C3 as stated: the exit handler sets exit_code, ended_at, clears the
\* runtime, keeps Stopped and Discarded, and turns any other status into
\* Completed (code 0) or Failed (any other code).
ExitTableOfSpec(status, code) ==
    CASE status = "Stopped" -> "Stopped"
      [] status = "Discarded" -> "Discarded"
      [] OTHER -> IF code = 0 THEN "Completed" ELSE "Failed"

ExitTableAmended(status, code) ==
    CASE status \in {"Stopped", "Discarded", "Ready"} -> status
      [] OTHER -> IF code = 0 THEN "Completed" ELSE "Failed"

BecomesFinal(t) ==
    /\ t \in Registered
    /\ t \in DOMAIN tasks'
    /\ tasks'[t].status \in {"Completed", "Failed"}
    /\ tasks'[t].status # tasks[t].status

C4_FinalHasExit ==
    [][\A t \in TaskIds :
          BecomesFinal(t) =>
             /\ tasks'[t].exit_code # None
             /\ tasks'[t].started_at # None
             /\ tasks'[t].ended_at # None
             /\ tasks'[t].ended_at[1] >= tasks'[t].started_at[1]]_vars

\* The exit handler has moved a task to Failed: the record carries the exit
\* code, and an end time later than its start time.
C4_Witness ==
    \E t \in Registered :
        /\ tasks[t].status = "Failed"
        /\ tasks[t].exit_code = Some(1)
        /\ tasks[t].started_at # None
        /\ tasks[t].ended_at # None
        /\ tasks[t].ended_at[1] > tasks[t].started_at[1]

\* C5: in every reachable state, a registered task with both started_at and
\* ended_at has started_at <= ended_at, also after a restart.
C5_StartBeforeEnd ==
    \A t \in Registered :
        (tasks[t].started_at # None /\ tasks[t].ended_at # None)
            => tasks[t].started_at[1] <= tasks[t].ended_at[1]

\* C6: in every reachable state, a registered task with an exit code has a
\* status in {Completed, Failed, Stopped, Discarded}, and a Completed or
\* Failed task has an exit code.  Ready, which this registry writes where a
\* task is stopped, is admitted along with Stopped.
C6_ExitCodeIffEnded ==
    \A t \in Registered :
        /\ tasks[t].exit_code # None =>
              tasks[t].status \in {"Completed", "Failed", "Stopped", "Discarded", "Ready"}
        /\ tasks[t].status \in {"Completed", "Failed"} => tasks[t].exit_code # None

\* The step in which start_task, called by c, makes its first check.
StartChecks(c) ==
    /\ callers[c].pc = "start_check"
    /\ callers'[c].pc # "start_check"

\* C7: start_task on a task whose runtime is installed returns
\* AlreadyRunning, spawns no child and leaves the record unchanged;
\* start_task on an unknown task id returns NotFound.
C7_StartRejected ==
    [][\A c \in Callers :
          StartChecks(c) =>
             LET t == callers[c].id IN
             /\ t \notin Registered =>
                   /\ callers'[c].pc = "ret"
                   /\ callers'[c].ret = "NotFound"
             /\ (t \in Registered /\ tasks[t].runtime # None) =>
                   /\ callers'[c].pc = "ret"
                   /\ callers'[c].ret = "AlreadyRunning"
                   /\ tasks' = tasks
                   /\ sessions' = sessions]_vars

\* start_task has just returned AlreadyRunning for a task that was stopped
\* and whose child has not been reaped yet: the status is Ready, the runtime
\* is still installed.
C7_Witness ==
    \E c \in Callers : \E t \in Registered :
        /\ callers[c].pc = "ret"
        /\ callers[c].ret = "AlreadyRunning"
        /\ tasks[t].runtime # None
        /\ tasks[t].status \notin ActiveStatus

\* C8: within a session, the status_changed(Idle) that start_task publishes
\* is emitted before any terminal_output event of the session.
C8_IdleBeforeOutput ==
    \A s \in SessionIds : ~events[s].early

\* A session whose status_changed(Idle) was published and whose reader has
\* since emitted a terminal_output event and gone back to read.
C8_Witness ==
    \E s \in SessionIds :
        /\ events[s].idle
        /\ sessions[s].reader = "read"

\* A step of the reader thread of session s that writes the status of its
\* task, and so emits status_changed.
ReaderEmitsStatus(s) ==
    LET t == sessions[s].task IN
    /\ sessions[s].reader \in {"approve", "working", "idleaw"}
    /\ sessions'[s].reader # sessions[s].reader
    /\ t \in Registered
    /\ t \in DOMAIN tasks'
    /\ tasks'[t].status # tasks[t].status

\* C9: once the terminal_exit event of a session has been emitted, no
\* status_changed event is emitted for that session any more.
C9_NoStatusAfterExit ==
    [][\A s \in SessionIds :
          events[s].exits > 0 => ~ReaderEmitsStatus(s)]_vars

\* A session that start_task has started: its exit waiter was spawned.
Started(s) == sessions[s].waiter # "none" /\ sessions[s].child # "none"

\* C10: the terminal_exit event of a started session is emitted exactly once:
\* never twice, not before the exit waiter has seen the child end and run the
\* exit handler, and always by the time the exit waiter is through, whether
\* the task is still registered or not.
C10_ExitOnce ==
    \A s \in SessionIds :
        /\ events[s].exits <= 1
        /\ Started(s) => (events[s].exits = 1 <=> sessions[s].waiter = "done")
        /\ ~Started(s) => events[s].exits = 0

\* The terminal_exit event of a session was emitted although its task had
\* been discarded before the exit waiter ran the exit handler.
C10_Witness ==
    \E s \in SessionIds :
        /\ Started(s)
        /\ events[s].exits = 1
        /\ sessions[s].task \notin Registered

\* The step in which discard_task, called by c, removes the entry and returns.
DiscardReturns(c) ==
    /\ callers[c].pc = "discard_remove"
    /\ callers'[c].pc = "ret"

\* C11: when discard_task(T) returns for a registered task, the registry does
\* not contain T, T's branch is not in list_branches and T's working copy
\* path does not exist, whichever step of the discard failed.
C11_DiscardCleansUp ==
    [][\A c \in Callers :
          DiscardReturns(c) =>
             /\ callers[c].id \notin DOMAIN tasks'
             /\ reqs[c].branch[1] \notin list_branches(repo')
             /\ reqs[c].path[1] \notin repo'.dirs]_vars

\* Both request threads have had their answer from discard_task for one task,
\* which was registered when the first of them looked.
BothDiscarded ==
    /\ \A c \in Callers : replies[c].ret # "none"
    /\ \A c, d \in Callers : replies[c].id = replies[d].id
    /\ \E c \in Callers : replies[c].ret = "Ok"

\* C12: of two concurrent discard_task(T) calls for a registered task one
\* returns Ok and the other NotFound.  (That the working copy path and the
\* branch are gone afterwards is what C11 states of every discard.)
C12_OneDiscardWins ==
    BothDiscarded =>
       \E c, d \in Callers :
          /\ c # d
          /\ replies[c].ret = "Ok"
          /\ replies[d].ret = "NotFound"

\* The step in which create_task, called by c, has run `worktree add` and it
\* failed: the path was not created.
AddFails(c) ==
    /\ callers[c].pc = "create_add"
    /\ callers'[c].pc # "create_add"
    /\ reqs[c].path[1] \notin repo'.dirs

\* C13: if `worktree add` fails, create_task returns an error, inserts no
\* record and publishes no status_changed event.
C13_AddFailureRegistersNothing ==
    [][\A c \in Callers :
          AddFails(c) =>
             /\ callers'[c].pc = "ret"
             /\ callers'[c].ret = "GitCommand"
             /\ tasks' = tasks
             /\ meta' = meta
             /\ bus' = bus]_vars

\* create_task has returned the git error of a failed `worktree add`; the
\* registry is empty and nothing was published.
C13_Witness ==
    \E c \in Callers :
        /\ callers[c].pc = "ret"
        /\ callers[c].ret = "GitCommand"
        /\ reqs[c].op = "create"
        /\ reqs[c].path # None
        /\ tasks = <<>>
        /\ bus = <<>>

\* A branch name that is absent, or has nothing but spaces in it.
Blank(b) == b = None \/ \A i \in 1..Len(b[1]) : b[1][i] = " "

\* The step in which create_task is called by c and runs up to `worktree add`.
CreateCalled(c) ==
    /\ callers[c].pc = "idle"
    /\ callers'[c].pc # "idle"
    /\ reqs'[c].op = "create"

\* C14: create_task with a branch_name that is absent or empty after trimming
\* fails before `worktree add` is invoked, with the message error once the
\* repository and base_ref have resolved (the steps before the check), and
\* leaves the registry and the repository unchanged.
C14_BranchRequired ==
    [][\A c \in Callers :
          (CreateCalled(c) /\ Blank(reqs'[c].branch_name)) =>
             /\ callers'[c].pc = "ret"
             /\ callers'[c].ret \in {"Message", "GitCommand"}
             /\ (reqs'[c].repo_ok /\ reqs'[c].base_ref # Some("gone"))
                   => callers'[c].ret = "Message"
             /\ tasks' = tasks
             /\ repo' = repo
             /\ bus' = bus]_vars

\* create_task has returned the message error for a branch name of one space,
\* in a repository that resolved.
C14_Witness ==
    \E c \in Callers :
        /\ callers[c].pc = "ret"
        /\ callers[c].ret = "Message"
        /\ reqs[c].op = "create"
        /\ reqs[c].branch_name = Some(<<" ">>)
        /\ reqs[c].repo_ok

\* The step in which create_task, called by c, inserts the record, publishes
\* and returns.
CreateInserts(c) ==
    /\ callers[c].pc = "create_insert"
    /\ callers'[c].pc = "ret"

\* What a successful create_task leaves, with the status it gives the record:
\* the record has that status, no runtime, no started_at, no ended_at and
\* no exit_code; one task_status_changed event was published, carrying the
\* status, the worktree path and the commit base_ref resolved to.
CreateLeaves(c, status) ==
    LET t == callers[c].id IN
    /\ callers'[c].ret = "Ok"
    /\ t \in DOMAIN tasks'
    /\ tasks'[t].status = status
    /\ tasks'[t].runtime = None
    /\ tasks'[t].started_at = None
    /\ tasks'[t].ended_at = None
    /\ tasks'[t].exit_code = None
    /\ Len(bus') = Len(bus) + 1
    /\ SubSeq(bus', 1, Len(bus)) = bus
    /\ bus'[Len(bus')] =
          [task_id |-> t, status |-> status,
           worktree_path |-> [under |-> "worktrees", name |-> ToString(t)],
           base_commit |-> Resolved(reqs[c])[1]]

C16_PathOfTask_Stated ==
    \A t \in Registered \cap DOMAIN meta :
        meta[t].worktree_path = [under |-> "worktrees", name |-> ToString(t)]

\* stop_task, called by c and not from discard_task, runs its read block.
StopReads(c) ==
    /\ callers[c].pc = "stop_read"
    /\ ~callers[c].nested
    /\ callers'[c] # callers[c]

\* C17: stop_task of a registered task without a runtime returns NotRunning
\* and stop_task of an unknown id returns NotFound; in both cases the call
\* ends in its read block: no child is killed, no event is published and the
\* registry is unchanged.
C17_StopWithoutRuntime ==
    [][\A c \in Callers :
          (StopReads(c) /\ (callers[c].id \in Registered => tasks[callers[c].id].runtime = None)) =>
             /\ callers'[c].pc = "ret"
             /\ callers'[c].ret = IF callers[c].id \in Registered
                                  THEN "NotRunning" ELSE "NotFound"
             /\ tasks' = tasks
             /\ sessions' = sessions
             /\ events' = events]_vars

\* stop_task has returned NotRunning for a task that ran and has exited, and
\* the record still carries what the exit wrote.
C17_Witness ==
    \E c \in Callers :
        /\ callers[c].pc = "ret"
        /\ callers[c].ret = "NotRunning"
        /\ \E t \in Registered :
              /\ tasks[t].runtime = None
              /\ tasks[t].status = "Completed"

\* The text of a snapshot cut into its lines.
RECURSIVE Lines(_, _)
Lines(text, line) ==
    IF text = <<>> THEN <<line>>
    ELSE IF Head(text) = "LF" THEN <<line>> \o Lines(Tail(text), <<>>)
    ELSE Lines(Tail(text), Append(line, Head(text)))

\* C18: whatever chunks were fed to a fresh screen of r rows and c columns,
\* its snapshot has exactly r lines and each line has at most c characters.
C18_SnapshotShape ==
    LET lines == Lines(full_text(screen), <<>>) IN
    /\ Len(lines) = screen.rows
    /\ \A i \in 1..Len(lines) : Len(lines[i]) <= screen.cols

\* Three chunks were fed to a screen of 2 rows and 3 columns, the last line
\* is full and the line above it is not empty: the text has wrapped or
\* scrolled.
C18_Witness ==
    /\ Len(fed) = MaxFeeds
    /\ screen.rows = 2
    /\ screen.grid[2][3] # " "
    /\ screen.grid[1][1] # " "
    /\ screen.cursor_col = screen.cols

\* The chunks fed so far, as one byte string.
RECURSIVE Concat(_)
Concat(chunks) == IF chunks = <<>> THEN <<>> ELSE Head(chunks) \o Concat(Tail(chunks))

\* C19: the snapshot after feeding the chunks one by one is the snapshot of a
\* fresh screen of the same size fed their concatenation in one call.
C19_FeedIsConcat ==
    full_text(screen) =
       full_text(FeedChunk([screen |-> Screen_new(screen.rows, screen.cols),
                            parser |-> Parser_new], Concat(fed)).screen)

\* A character was printed, then a clear-screen sequence arrived cut after
\* its "ESC [": the sequence has been dispatched and the screen is empty.
C19_Witness ==
    /\ fed = << <<"b", "a">>, <<"ESC", "[">>, <<"2", "J">> >>
    /\ parser = Parser_new
    /\ full_text(screen) = <<"LF">>

\* C20: the driver passes a status to on_status only when it differs from the
\* status it passed last: no two consecutive notifications of a session
\* carry the same status.
C20_NoRepeatedStatus ==
    \A i \in 1..(Len(notified) - 1) : notified[i] # notified[i + 1]

\* The reader thread of the Codex driver runs handle_startup_sequence.
StartupRuns ==
    /\ agent.startup # None
    /\ agent'.startup = None

\* The snapshot handle_startup_sequence is called with shows the resume
\* prompt and not "no sessions yet".
ResumeSnapshot ==
    /\ agent.startup[1].resume_prompt
    /\ ~agent.startup[1].no_sessions

\* How often the driver wrote the byte to the PTY writer.
Written(w, byte) == Cardinality({i \in DOMAIN w : w[i] = byte})

\* C21: once handle_startup_sequence has run for a snapshot with the resume
\* prompt and without "no sessions yet", exactly one carriage return has been
\* written; a snapshot without them writes none.
C21_OneCarriageReturn ==
    [][StartupRuns =>
          IF ResumeSnapshot
          THEN Written(agent'.written, "CR") = 1
          ELSE Written(agent'.written, "CR") = Written(agent.written, "CR")]_vars

\* The re-check thread runs, 1 s or more after it was spawned.
RecheckRuns ==
    /\ agent.recheck # None
    /\ agent'.recheck = None

\* C22: the re-check clears the pending flag; if "no sessions yet" is still on
\* the screen it sets both latches and one ESC has been written; never more
\* than one ESC is written and a re-check is spawned only when none is pending.
C22_OneEscape ==
    [][/\ RecheckRuns =>
             /\ ~agent'.pending_no_sessions_check
             /\ Contains(to_ascii_lowercase(full_text(screen)), NO_SESSIONS) =>
                   /\ agent'.sent_no_sessions_escape
                   /\ agent'.sent_resume_enter
                   /\ Written(agent'.written, "ESC") = 1
       /\ Written(agent'.written, "ESC") <= 1
       /\ (agent.recheck = None /\ agent'.recheck # None) =>
             ~agent.pending_no_sessions_check]_vars

\* The Enter of the startup sequence was due and has not been written: its
\* send found the lock of the writer held.
EnterSkipped ==
    /\ agent.sent_resume_enter
    /\ ~agent.sent_no_sessions_escape
    /\ Written(agent.written, "CR") = 0

\* C26: after a send of Enter was skipped, handle_startup_sequence run for a
\* snapshot that still shows the resume prompt, with the writer free, writes
\* the carriage return.
C26_SkippedSendRefires ==
    [][(StartupRuns /\ EnterSkipped /\ ResumeSnapshot /\ ~agent.typing) =>
          Written(agent'.written, "CR") = 1]_vars

\* status_from_output runs for a chunk.
ChunkFed == fed' # fed

\* status_if_idle returns a status.
IdleFound ==
    /\ agent.idle = None
    /\ agent'.idle # None

\* The approval prompt is on the screen, whatever the case of its letters.
PromptShown(s) == Contains(to_ascii_lowercase(full_text(s)), APPROVAL_PROMPT)

\* C23: a chunk that leaves no approval prompt on the screen puts the driver
\* in Working, and status_from_output returns Working for on_status exactly
\* when the driver was not in Working, so also after Idle; status_if_idle
\* returns Idle only from Working, with output seen and at least 1 s old.
C23_WorkingIdleWorking ==
    [][/\ (ChunkFed /\ (agent.kind = "codex" => ~PromptShown(screen'))) =>
             /\ agent'.last_status = Some("Working")
             /\ agent'.reader = IF agent.last_status = Some("Working")
                                THEN None ELSE Some("Working")
       /\ IdleFound =>
             /\ agent.last_status = Some("Working")
             /\ agent.last_output # None
             /\ clock - agent.last_output[1] >= 1
             /\ agent'.idle = Some("Idle")
             /\ agent'.last_status = Some("Idle")]_vars

\* Working, Idle and Working again have been passed to on_status.
C23_Witness ==
    /\ notified = <<"Working", "Idle", "Working">>
    /\ agent.last_status = Some("Working")

\* C24: after each chunk the status of the Codex driver is AwaitingApproval
\* if the lower-cased snapshot contains the approval prompt and Working if it
\* does not.
C24_ApprovalIffPrompt ==
    [][(ChunkFed /\ agent.kind = "codex") =>
          agent'.last_status =
             Some(IF PromptShown(screen') THEN "AwaitingApproval" ELSE "Working")]_vars

\* The prompt was written with a capital letter and then cleared from the
\* screen: AwaitingApproval and then Working were passed to on_status.
C24_Witness ==
    /\ fed = << <<"Y", "n">>, <<"ESC", "[", "2", "J">> >>
    /\ notified = <<"AwaitingApproval", "Working">>
    /\ ~PromptShown(screen)

\* C27: no two entries of the registry have the same worktree path, whatever
\* calls of create_task and register_existing_worktrees came before and
\* however they interleaved.
C27_UniquePaths ==
    \A t, u \in Registered \cap DOMAIN meta :
        t # u => meta[t].worktree_path # meta[u].worktree_path

\* discard_task, called by c, is past its read block: it found the record,
\* and it may be inside the stop_task it calls for a task with a runtime.
Discarding(c) ==
    \/ callers[c].pc \in {"discard_vcs", "discard_mark", "discard_remove"}
    \/ callers[c].nested

\* A discard_task that found the record returns only from its last step,
\* with Ok and the entry gone.
DiscardEndsOk ==
    \A c \in Callers :
        (Discarding(c) /\ callers'[c].pc = "ret") =>
            /\ callers[c].pc = "discard_remove"
            /\ callers'[c].ret = "Ok"
            /\ callers[c].id \notin DOMAIN tasks'

\* The write block that finds the record marks it Discarded, clears its
\* runtime and publishes that summary, the entry still being registered.
DiscardPublishes ==
    \A c \in Callers :
        LET t == callers[c].id IN
        (callers[c].pc = "discard_mark" /\ callers'[c].pc # "discard_mark"
            /\ t \in Registered) =>
            /\ t \in DOMAIN tasks'
            /\ tasks'[t].status = "Discarded"
            /\ tasks'[t].runtime = None
            /\ bus' = Append(bus, [task_id |-> t, status |-> "Discarded",
                                   worktree_path |-> meta[t].worktree_path,
                                   base_commit |-> meta[t].base_commit])

\* The Discarded status of an entry that leaves the registry was published
\* before.
RemovedWasPublished ==
    \A t \in Registered \ DOMAIN tasks' :
        \E i \in DOMAIN bus : bus[i].task_id = t /\ bus[i].status = "Discarded"

DiscardEndsOkAfterStop == [][DiscardEndsOk]_vars

StartAnswered == Len(shells'.calls) = Len(shells.calls) + 1
LastCall(sh) == sh.calls[Len(sh.calls)]

\* C25: a request to start the worktree shell of a task that has a shell
\* returns Ok and spawns nothing, and a start request of kind Agent returns
\* Ok and changes nothing.
C25_ShellStartIdempotent ==
    [][StartAnswered =>
          LET call == LastCall(shells') IN
          ((call.kind = "Agent") \/ (call.task_id \in shells.open)) =>
              /\ call.ret = "Ok"
              /\ shells'.spawned = shells.spawned
              /\ shells'.open = shells.open]_vars

\* The worktree shell of task 1 was started twice, through either command,
\* then a start of kind Agent came: all three Ok, one shell spawned.
C25_Witness ==
    /\ Len(shells.calls) = 3
    /\ \A i \in 1..3 : shells.calls[i].task_id = 1 /\ shells.calls[i].ret = "Ok"
    /\ shells.calls[1].kind = "Worktree"
    /\ shells.calls[2].kind = "Worktree"
    /\ shells.calls[2].command = "task_terminal_start"
    /\ shells.calls[3].kind = "Agent"
    /\ shells.spawned = <<1>>

\* The sessions of a directory that belong to the working copy.
SessionCandidates(dir, listing) ==
    IF listing = None THEN {}
    ELSE { [session_id |-> <<dir, i>>, timestamp |-> listing[1][i].timestamp] :
             i \in { j \in DOMAIN listing[1] : listing[1][j].cwd } }

\* The directory the answer has to come from: the primary one unless it has
\* no session of the working copy.
Pool ==
    IF SessionCandidates("primary", lookup.primary) # {}
    THEN SessionCandidates("primary", lookup.primary)
    ELSE SessionCandidates("legacy", lookup.legacy)

\* C29: find_latest_session_id answers with a session whose timestamp is the
\* greatest of its directory, a session with a timestamp winning over every
\* session without one; the legacy directory is read only when the primary
\* one gives no session, and without any session the answer is None.
C29_LatestSession ==
    lookup.scanned # <<>> =>
        /\ lookup.scanned = IF SessionCandidates("primary", lookup.primary) # {}
                            THEN <<"primary">> ELSE <<"primary", "legacy">>
        /\ Pool = {} => lookup.result = None
        /\ Pool # {} =>
              \E c \in Pool :
                  /\ lookup.result = Some(c.session_id)
                  /\ \A d \in Pool :
                        d.timestamp # None =>
                            /\ c.timestamp # None
                            /\ c.timestamp[1] >= d.timestamp[1]

\* The primary directory lists a session without a timestamp, then one of
\* time 2, then one of time 1, all of the working copy: the second is found
\* and the legacy directory, which has a session too, is not read.
C29_Witness ==
    /\ lookup.primary = Some(<< [timestamp |-> None, cwd |-> TRUE],
                                [timestamp |-> Some(2), cwd |-> TRUE],
                                [timestamp |-> Some(1), cwd |-> TRUE] >>)
    /\ lookup.legacy = Some(<< [timestamp |-> Some(2), cwd |-> TRUE] >>)
    /\ lookup.scanned = <<"primary">>
    /\ lookup.result = Some(<<"primary", 2>>)

\* C30: a launcher spawns its candidates in order and stops at the first
\* that is not NotFound: it returns Ok exactly when that candidate spawned
\* and that candidate's error when it failed otherwise, no later candidate
\* being spawned; it returns the message error exactly when every candidate
\* was NotFound.
C30_FallbackChain ==
    launch.result # "none" =>
        LET o == launch.outcomes
            k == launch.tried
        IN  /\ k \in DOMAIN o
            /\ \A j \in 1..(k - 1) : o[j] = "NotFound"
            /\ o[k] = "NotFound" => k = Len(o)
            /\ launch.result = "Ok" <=> o[k] = "Ok"
            /\ launch.result = "Message" <=> \A j \in DOMAIN o : o[j] = "NotFound"
            /\ o[k] \notin {"Ok", "NotFound"} => launch.result = o[k]

\* The terminal launcher of the unix build: the first two programs are
\* missing, the third one starts; the fourth, which would fail, and the
\* fifth, which would start, are not spawned.
C30_Witness ==
    /\ launch.opener = "terminal"
    /\ launch.candidates[3] = "konsole"
    /\ launch.outcomes[1] = "NotFound"
    /\ launch.outcomes[2] = "NotFound"
    /\ launch.outcomes[3] = "Ok"
    /\ launch.outcomes[4] = "PermissionDenied"
    /\ launch.outcomes[5] = "Ok"
    /\ launch.tried = 3
    /\ launch.result = "Ok"

\* terminal_resize has put a size into the screen in this step.
Resized == host'.size # None /\ fed' = fed

\* C32: a resize to (rows', cols') keeps the cells that lie in both the old
\* and the new grid, fills every other cell with a space and clamps the
\* cursor to the last row and the last column of the new size.
C32_ResizeKeepsTopLeft ==
    [][Resized =>
          LET rows == host'.size[1][1]
              cols == host'.size[1][2]
          IN  /\ screen'.rows = rows /\ screen'.cols = cols
              /\ DOMAIN screen'.grid = 1..rows
              /\ \A r \in 1..rows :
                    /\ DOMAIN screen'.grid[r] = 1..cols
                    /\ \A c \in 1..cols :
                          screen'.grid[r][c] =
                              IF r <= Min(rows, screen.rows) /\ c <= Min(cols, screen.cols)
                              THEN screen.grid[r][c] ELSE " "
              /\ screen'.cursor_row = Min(screen.cursor_row, Max(rows - 1, 0))
              /\ screen'.cursor_col = Min(screen.cursor_col, Max(cols - 1, 0))]_vars

\* A screen of 2 x 3 that showed "ba" in its first row with the cursor after
\* it has been made 1 x 1: "b" is kept and the cursor is in the only cell.
C32_Witness ==
    /\ fed = << <<"b", "a">> >>
    /\ host.size = Some(<<1, 1>>)
    /\ screen.grid = << <<"b">> >>
    /\ screen.cursor_row = 0
    /\ screen.cursor_col = 0

\* C37: after any chunks and resizes, sizes with rows = 0 or cols = 0
\* included, no feed has panicked, the grid has rows x cols cells, and the
\* cursor is inside the screen: cursor_col <= cols, and cursor_row < rows
\* whenever the screen has a row at all.
C37_CursorInBounds ==
    /\ ~host.panicked
    /\ screen.rows > 0 => screen.cursor_row < screen.rows
    /\ screen.cursor_col <= screen.cols
    /\ Len(screen.grid) = screen.rows
    /\ \A r \in DOMAIN screen.grid : Len(screen.grid[r]) = screen.cols
\* C36: within one Codex session at most one startup keystroke is written:
\* after the carriage return no ESC, after the ESC no carriage return.
C36_OneStartupKeystroke ==
    Written(agent.written, "CR") + Written(agent.written, "ESC") <= 1

\* The re-check thread of an ended session runs.
StaleRecheckRuns ==
    /\ threads.stale # None
    /\ threads'.stale = None

\* C38: a re-check spawned in a session that has ended leaves the session
\* running now alone: it changes neither latch nor the pending flag of the
\* driver and writes nothing to the writer of the new session.
C38_StaleRecheckIsInert ==
    [][StaleRecheckRuns =>
          /\ agent'.sent_resume_enter = agent.sent_resume_enter
          /\ agent'.sent_no_sessions_escape = agent.sent_no_sessions_escape
          /\ agent'.pending_no_sessions_check = agent.pending_no_sessions_check
          /\ agent'.written = agent.written]_vars

\* The part of C38 that the code keeps: the stale re-check writes its ESC to
\* the writer of the session that spawned it.
StaleWritesToOldWriter ==
    [][StaleRecheckRuns => agent'.written = agent.written]_vars

\* C31: the exit thread clears the flag before it calls on_exit; once the
\* child has terminated the idle thread ends, after at most one more wake-up
\* from the time the flag was cleared, when every thread gets its turn.
C31_IdleThreadEnds ==
    /\ [](threads.on_exit # None => threads.on_exit = Some(FALSE))
    /\ [](threads.late <= 1)
    /\ (threads.child = "exited") ~> (threads.idle = "done")

C31_Witness ==
    /\ threads.child = "exited"
    /\ threads.on_exit = Some(FALSE)
    /\ threads.idle = "done"
    /\ threads.late = 1

\* The thread is in a blocking call.
InIo(t) ==
    /\ ~Returned(t)
    /\ Current(t).op = "io"

\* C33: no thread is in a PTY read or write, a git subprocess or a spawn
\* while it holds the lock of the registry or the mutex of the driver's state.
C33_NoIoUnderLock ==
    \A t \in threads.run :
       InIo(t) => \A h \in threads.held[t] : h[1] \notin {"registry", "state"}

\* The thread waits for a lock.
Waiting(t) ==
    /\ ~Returned(t)
    /\ Current(t).op \in {"read", "write", "lock"}
    /\ Holders(Current(t).lock, Current(t).op) # {}

\* C39: no set of threads waits in a cycle: in every set of waiting threads
\* one waits only for locks held by threads outside the set.
C39_NoWaitCycle ==
    \A S \in SUBSET threads.run :
       S # {} =>
          \E t \in S : ~Waiting(t) \/ Holders(Current(t).lock, Current(t).op) \cap S = {}

\* The re-check holds the state and the writer; status_if_idle waits for the
\* one, terminal_write for the other.
C39_Witness ==
    /\ threads.run = {"no_sessions_check", "status_if_idle", "terminal_write"}
    /\ threads.held["no_sessions_check"] = {<<"state", "lock">>, <<"writer", "lock">>}
    /\ Waiting("status_if_idle")
    /\ Waiting("terminal_write")

\* The children alive for the task.
LiveChildren(t) ==
    { s \in DOMAIN sessions : sessions[s].task = t /\ sessions[s].child = "running" }

\* C34: of two start_task calls in flight for one task at most one spawns a
\* child: a task never has two children alive, and no call is about to
\* install a runtime over one that is installed.
C34_OneChildPerTask ==
    /\ \A t \in TaskIds : Cardinality(LiveChildren(t)) <= 1
    /\ \A c \in Callers :
          (callers[c].pc = "start_install" /\ callers[c].id \in Registered) =>
             tasks[callers[c].id].runtime = None

\* stop_task has read the runtime of session s, is past its try_lock of the
\* child and is about to write the status and return Ok.
StopReturnsOk(s) ==
    \E c \in Sequential :
       /\ callers[c].pc = "stop_write"
       /\ callers[c].sess = s
       /\ callers[c].id \in Registered

\* C35: once stop_task returns Ok for a running task the session ends: the
\* exit waiter sees the child gone, finish_task clears the runtime and the
\* exit is published, when the exit waiter gets its turn; the child is not
\* assumed to exit unless it was killed.
C35_StopEndsSession ==
    \A s \in SessionIds : StopReturnsOk(s) ~> (sessions[s].waiter = "done")

====
